---- MODULE Spec2Model ----
(***************************************************************************)
(* Real-time quote distribution: the quote resolution chain                *)
(* (MarketDataService), the subscription and fan-out manager               *)
(* (WebSocketMarketService) and the refresh scheduler                      *)
(* (PriceUpdaterService).                                                  *)
(*                                                                         *)
(* Prices are integers in thousandths of a currency unit ("mills"), so     *)
(* that toFixed(2) is a real rounding.  Every `await` of the source is a   *)
(* point where a handler is suspended and another handler may run.         *)
(***************************************************************************)
EXTENDS Integers, Sequences, FiniteSets, TLC

\* ------------------------------------------------------------------ bounds
MaxQuoteCalls == 3
MaxBatches == 2
MaxSeedPrice == 20
NumSockets == 3
MaxRequests == 3
MaxPublishes == 1
MaxFaults == 1
MaxTicks == 2

\* --------------------------------------------------- program constants
MAX_SYMBOLS_PER_UPDATE == 5

\* ------------------------------------------------------- symbols and cases
\* Symbols as callers may send them.
RawSymbols == {"aapl", "AAPL", "zzzz"}

\* String.prototype.toUpperCase on the symbols of the model.
ToUpperCase(s) ==
  CASE s = "aapl" -> "AAPL"
    [] s = "zzzz" -> "ZZZZ"
    [] OTHER -> s

Symbols == {ToUpperCase(s) : s \in RawSymbols}

Procs == {"A", "B"}

\* ------------------------------------------------------------ JS numbers
Num(n) == [k |-> "num", n |-> n]
Undefined == [k |-> "undefined", n |-> 0]
NaN == [k |-> "NaN", n |-> 0]
Infinity == [k |-> "Infinity", n |-> 0]

\* a - b on JS values: anything that is not a number gives NaN.
JsSub(a, b) == IF a.k = "num" /\ b.k = "num" THEN Num(a.n - b.n) ELSE NaN

\* a === 0
JsIsZero(a) == a.k = "num" /\ a.n = 0

\* change / previousClose * 100 for a change and a previousClose in mills,
\* in hundred-thousandths of a percent (rounded down): floor(c * 10^7 / p),
\* computed in two steps to stay within 32 bits.
Percent(c, p) == ((c * 1000) \div p) * 10000 + (((c * 1000) % p) * 10000) \div p

\* (a / b) * 100 on JS values: a division by zero gives NaN (0 / 0) or an
\* infinity, anything that is not a number gives NaN.
JsPercent(a, b) ==
  IF a.k = "num" /\ b.k = "num"
  THEN IF b.n # 0 THEN Num(Percent(a.n, b.n))
       ELSE IF a.n = 0 THEN NaN ELSE Infinity
  ELSE NaN

\* Number.prototype.toFixed(2) followed by parseFloat, on mills: round to
\* the nearest multiple of 10 mills (halves away from zero).
ToFixed2(m) ==
  IF m >= 0 THEN ((m + 5) \div 10) * 10 ELSE -(((-m + 5) \div 10) * 10)

\* The same rounding to two decimals on hundred-thousandths of a percent:
\* the nearest multiple of 1000.
PercentToFixed2(c) ==
  IF c >= 0 THEN ((c + 500) \div 1000) * 1000 ELSE -(((-c + 500) \div 1000) * 1000)

\* ------------------------------------------------------------------ Quote
NoQuote ==
  [symbol |-> "", price |-> Undefined, previousClose |-> Undefined,
   change |-> Undefined, changePercent |-> Undefined, dataSource |-> "none",
   isRealTime |-> FALSE]

\* What a provider call produces: a returned Quote or a thrown error.
Return(q) == [threw |-> FALSE, quote |-> q]
Throw == [threw |-> TRUE, quote |-> NoQuote]

\* ----------------------------------------------------- provider responses
\* status: "ok" is a 2xx answer; axios rejects on "timeout" and "http_error".
\* body: "object" is a JSON object carrying the fields, "null" is a body
\* that is null.
FinnhubResponse(status, body, c, pc) ==
  [status |-> status, body |-> body, c |-> c, pc |-> pc]

FinnhubResponses ==
  { FinnhubResponse("timeout", "null", Undefined, Undefined),
    FinnhubResponse("http_error", "null", Undefined, Undefined),
    FinnhubResponse("ok", "null", Undefined, Undefined),
    FinnhubResponse("ok", "object", Num(0), Num(0)),
    FinnhubResponse("ok", "object", Undefined, Undefined),
    FinnhubResponse("ok", "object", Num(181500), Num(180000)) }

\* globalQuote: "absent" (no 'Global Quote' key, e.g. the rate-limit note),
\* "empty" ({}), "object".  hasChangePercent: the '10. change percent' key
\* is there.  price, previousClose, change, changePercent: the fields after
\* parseFloat (the provider prints the percentage with four decimals).
AlphaVantageResponse(status, body, globalQuote, hasChangePercent, price, pc, change, pct) ==
  [status |-> status, body |-> body, globalQuote |-> globalQuote,
   hasChangePercent |-> hasChangePercent, price |-> price,
   previousClose |-> pc, change |-> change, changePercent |-> pct]

AlphaVantageResponses ==
  { AlphaVantageResponse("timeout", "null", "absent", FALSE, NaN, NaN, NaN, NaN),
    AlphaVantageResponse("http_error", "null", "absent", FALSE, NaN, NaN, NaN, NaN),
    AlphaVantageResponse("ok", "null", "absent", FALSE, NaN, NaN, NaN, NaN),
    AlphaVantageResponse("ok", "object", "absent", FALSE, NaN, NaN, NaN, NaN),
    AlphaVantageResponse("ok", "object", "empty", FALSE, NaN, NaN, NaN, NaN),
    AlphaVantageResponse("ok", "object", "object", FALSE, Num(181000), Num(180000), Num(1000),
                         Undefined),
    AlphaVantageResponse("ok", "object", "object", TRUE, NaN, NaN, NaN, NaN),
    AlphaVantageResponse("ok", "object", "object", TRUE, Num(181000), Num(180000), Num(1000),
                         Num(55560)) }

\* ------------------------------------------------------- stock simulator
\* getSymbolParameters: the static table, keyed by the uppercased symbol;
\* drift and volatility in hundredths, basePrice in mills.
getSymbolParameters(symbol) ==
  CASE ToUpperCase(symbol) = "AAPL" -> [drift |-> 12, volatility |-> 30, basePrice |-> 180000]
    [] OTHER -> [drift |-> 10, volatility |-> 30, basePrice |-> 100000]

\* The standard-normal samples of the model (randomNormal(0, 1)).
Shocks == {-1, 0, 1}

\* The sample randomNormal returns when Math.random() returns 0 for u1 and
\* the cosine is negative: sqrt(-2 * log(0)) is Infinity and z0 -Infinity.
UnderflowShocks == {-1000}

\* exp(drift*dt + volatility*sqrt(dt)*z) in ten-thousandths, for
\* dt = 1/(252*78): sqrt(dt) = 0.0071327, so volatility 0.30 gives
\* exp(+-0.00214 + drift*dt) = 0.9979 and 1.0021, and z = 0 gives
\* exp(drift*dt) = 1.000006, which is 1 at this precision.  Zero drift and
\* zero volatility give exp(0) = 1 exactly.  With a volatility that is not
\* zero a sample of -Infinity gives exp(-Infinity) = 0.
ExpTenThousandths(drift, volatility, z) ==
  CASE drift = 0 /\ volatility = 0 -> 10000
    [] volatility # 0 /\ z \in UnderflowShocks -> 0
    [] volatility = 30 /\ z = -1 -> 9979
    [] volatility = 30 /\ z = 1 -> 10021
    [] OTHER -> 10000

\* generateNextPrice(currentPrice, drift, volatility, dt) with shock z.
generateNextPrice(currentPrice, drift, volatility, z) ==
  ToFixed2((currentPrice * ExpTenThousandths(drift, volatility, z)) \div 10000)

\* ------------------------------------------------- quote resolution chain
\* getQuoteFromFinnhub: axios rejects on a timeout or a non-2xx status,
\* reading a field of a null body throws, and c = pc = 0 is the provider's
\* invalid-symbol signature.
getQuoteFromFinnhub(symbol, resp) ==
  IF resp.status # "ok" \/ resp.body = "null" THEN Throw
  ELSE IF JsIsZero(resp.c) /\ JsIsZero(resp.pc) THEN Throw
  ELSE Return([symbol |-> ToUpperCase(symbol), price |-> resp.c,
               previousClose |-> resp.pc, change |-> JsSub(resp.c, resp.pc),
               changePercent |-> JsPercent(JsSub(resp.c, resp.pc), resp.pc),
               dataSource |-> "finnhub", isRealTime |-> TRUE])

\* getQuoteFromAlphaVantage: a missing or empty 'Global Quote' throws, and
\* so does .replace on a missing '10. change percent'.
getQuoteFromAlphaVantage(symbol, resp) ==
  IF resp.status # "ok" \/ resp.body = "null" THEN Throw
  ELSE IF resp.globalQuote # "object" THEN Throw
  ELSE IF ~resp.hasChangePercent THEN Throw
  ELSE Return([symbol |-> ToUpperCase(symbol), price |-> resp.price,
               previousClose |-> resp.previousClose, change |-> resp.change,
               changePercent |-> resp.changePercent,
               dataSource |-> "alphavantage", isRealTime |-> TRUE])

\* The seed taken with ?? in place of ||: a stored 0 is used as it is.
lastPriceOrBase_Nullish(m, symbol) ==
  IF symbol \in DOMAIN m THEN m[symbol] ELSE getSymbolParameters(symbol).basePrice

\* this.lastMockPrices.get(symbol) || params.basePrice, on the Map m of one
\* service instance (a function whose domain is the keys set so far).
lastPriceOrBase(m, symbol) ==
  IF symbol \in DOMAIN m /\ m[symbol] # 0 THEN m[symbol]
  ELSE getSymbolParameters(symbol).basePrice

\* The price getMockQuote generates and stores under the key `symbol`.
mockPrice(m, symbol, z) ==
  LET params == getSymbolParameters(symbol)
  IN generateNextPrice(lastPriceOrBase(m, symbol), params.drift, params.volatility, z)

\* this.lastMockPrices.set(symbol, price)
mapSet(m, key, value) == [k \in DOMAIN m \cup {key} |-> IF k = key THEN value ELSE m[k]]

\* getMockQuote tagging its Quote as real-time.
getMockQuote_RealTime(m, symbol, z) ==
  LET params == getSymbolParameters(symbol)
      price == mockPrice(m, symbol, z)
  IN [symbol |-> ToUpperCase(symbol), price |-> Num(ToFixed2(price)),
      previousClose |-> Num(ToFixed2(params.basePrice)),
      change |-> Num(ToFixed2(price - params.basePrice)),
      changePercent |-> Num(PercentToFixed2(Percent(price - params.basePrice, params.basePrice))),
      dataSource |-> "mock", isRealTime |-> TRUE]

\* The Quote getMockQuote returns.
getMockQuote(m, symbol, z) ==
  LET params == getSymbolParameters(symbol)
      price == mockPrice(m, symbol, z)
  IN [symbol |-> ToUpperCase(symbol), price |-> Num(ToFixed2(price)),
      previousClose |-> Num(ToFixed2(params.basePrice)),
      change |-> Num(ToFixed2(price - params.basePrice)),
      changePercent |-> Num(PercentToFixed2(Percent(price - params.basePrice, params.basePrice))),
      dataSource |-> "mock", isRealTime |-> FALSE]

\* ----------------------------------------------------------------- state
VARIABLES
  lastMockPrices,     \* per process: MarketDataService.lastMockPrices
  calls,              \* getQuote calls: where each is and what it returned
  batches,            \* getMultipleQuotes calls: their symbols, their getQuote calls, the array returned
  simulator,          \* a generateNextPrice call: its arguments and the price returned
  mock,               \* a getMockQuote call: the stored price, its seed and the price, open, high and low returned
  connected,          \* per socket: the connection is open
  rooms,              \* per socket: socket.rooms (without the socket's own room)
  subscribedSymbols,  \* per process: WebSocketMarketService.subscribedSymbols
  busChannels,        \* per process: channels its redisSubscriber is subscribed to
  netBusCalls,        \* per process and symbol: subscribe calls issued minus unsubscribe calls issued
  activeSymbols,      \* the Redis set 'active_symbols', shared by all processes
  handler,            \* per socket: its subscribe/unsubscribe handler, suspended at an await or finished
  emitted,            \* per socket: the events emitted to it since its latest request
  inflight,           \* per process: bus messages received and not yet handled
  requests,           \* client events (subscribe, unsubscribe, disconnect) received so far
  published,          \* the publishPriceUpdate calls so far: channel, message, success
  faults,             \* bus and store operations that have failed so far
  updater,            \* PriceUpdaterService: isRunning, updateJob, the cron tasks firing, and where shutdown() is
  ticks,              \* the runs of updatePrices so far
  cache,              \* per symbol: the Redis entry `quote:${symbol}`
  effects             \* what the ticks did: fetches, publishes and cache writes

simVars == <<simulator, mock>>
quoteVars == <<calls, batches, simVars>>
fanVars == <<connected, rooms, subscribedSymbols, busChannels, netBusCalls,
             activeSymbols, handler, emitted, inflight, requests, published, faults>>
schedVars == <<updater, ticks, cache, effects>>
vars == <<lastMockPrices, calls, batches, simulator, mock, connected, rooms, subscribedSymbols, busChannels,
          netBusCalls, activeSymbols, handler, emitted, inflight, requests,
          published, faults, updater, ticks, cache, effects>>

\* The service instance whose getQuote calls are followed one await at a time.
QuoteProc == "A"

\* ------------------------------------------------- sockets, rooms, events
Sockets == 1..NumSockets

\* The process a socket is connected to: odd sockets to A, even ones to B.
SocketProc(s) == IF s % 2 = 1 THEN "A" ELSE "B"

SocketsOf(p) == {s \in Sockets : SocketProc(s) = p}

\* `stock:${symbol}`: the socket.io room and the bus channel of a symbol.
Room(symbol) == <<"stock:", symbol>>

\* The sockets of process p that are in `room`: io.in(room).
InRoom(p, room) == {s \in SocketsOf(p) : room \in rooms[s]}

\* A handler: the request (op, symbol), the await it is suspended at (pc),
\* whether the command it awaits succeeds (ok), what fetchSockets found
\* (empty), what it emitted at its end (outcome), and three records of its
\* run: pre (a subscribe found the process without the symbol and the room
\* without another socket; an unsubscribe found the socket alone in the
\* room), solo (no other handler for the symbol has been running since it
\* started) and busCalls (bus calls it issued).
NoHandler ==
  [op |-> "none", symbol |-> "", pc |-> "idle", ok |-> TRUE, empty |-> FALSE,
   pre |-> FALSE, solo |-> FALSE, outcome |-> "none", busCalls |-> 0]

\* A handler is suspended at one of its awaits.
InFlight(h) == h.pc \notin {"idle", "done"}

\* socket.emit(event, ...): the event name, the symbol it is about and, for
\* a price_update, the payload.
Event(name, symbol, data) == [event |-> name, symbol |-> symbol, data |-> data]

\* No entry under `quote:${symbol}`.
NoCache == [k |-> "none"]

\* new PriceUpdaterService(): not running, no job, no cron task firing
\* (timers), shutdown() not called.
NoUpdater == [isRunning |-> FALSE, updateJob |-> "none", timers |-> 0, shutdown |-> "idle"]

\* No generateNextPrice call is followed.
NoSimulation ==
  [pc |-> "none", currentPrice |-> 0, drift |-> 0, volatility |-> 0, nextPrice |-> 0]

\* No getMockQuote call is followed.
NoMock ==
  [pc |-> "none", symbol |-> "", lastPrice |-> 0, seed |-> 0, price |-> 0, open |-> 0,
   high |-> 0, low |-> 0]

Init ==
  /\ lastMockPrices = [p \in Procs |-> <<>>]
  /\ calls = <<>>
  /\ batches = <<>>
  /\ simulator = NoSimulation
  /\ mock = NoMock
  /\ connected = [s \in Sockets |-> TRUE]
  /\ rooms = [s \in Sockets |-> {}]
  /\ subscribedSymbols = [p \in Procs |-> {}]
  /\ busChannels = [p \in Procs |-> {}]
  /\ netBusCalls = [p \in Procs |-> [x \in Symbols |-> 0]]
  /\ activeSymbols = {}
  /\ handler = [s \in Sockets |-> NoHandler]
  /\ emitted = [s \in Sockets |-> <<>>]
  /\ inflight = [p \in Procs |-> <<>>]
  /\ requests = 0
  /\ published = <<>>
  /\ faults = 0
  /\ updater = NoUpdater
  /\ ticks = <<>>
  /\ cache = [x \in Symbols |-> NoCache]
  /\ effects = {}

\* A caller invokes getQuote(symbol): the Finnhub request is issued.
GetQuoteStart(symbol) ==
  /\ Len(calls) < MaxQuoteCalls
  /\ calls' = Append(calls, [symbol |-> symbol, pc |-> "finnhub",
                             attempts |-> <<"finnhub">>, failed |-> {},
                             result |-> NoQuote])
  /\ UNCHANGED lastMockPrices

\* getQuote without its inner try/catch: the Alpha Vantage error reaches the
\* caller.
FallBackToMock_Rethrow(i, z) ==
  /\ calls' = [calls EXCEPT ![i] =
                 [calls[i] EXCEPT !.pc = "raised",
                                  !.failed = calls[i].failed \cup {"alphavantage"}]]
  /\ UNCHANGED lastMockPrices

\* catch (error2): the simulated fallback, run synchronously in the handler.
FallBackToMock(i, z) ==
  LET c == calls[i]
      m == lastMockPrices[QuoteProc]
  IN /\ lastMockPrices' = [lastMockPrices EXCEPT
                             ![QuoteProc] = mapSet(m, c.symbol, mockPrice(m, c.symbol, z))]
     /\ calls' = [calls EXCEPT ![i] =
                    [c EXCEPT !.pc = "returned",
                              !.attempts = Append(c.attempts, "mock") ,
                              !.failed = c.failed \cup {"alphavantage"},
                              !.result = getMockQuote(m, c.symbol, z)]]

\* getQuote going from a failed Finnhub request straight to the simulation.
FallBackToAlphaVantage_Skipped(i) ==
  LET c == calls[i]
      m == lastMockPrices[QuoteProc]
  IN /\ lastMockPrices' = [lastMockPrices EXCEPT
                             ![QuoteProc] = mapSet(m, c.symbol, mockPrice(m, c.symbol, 0))]
     /\ calls' = [calls EXCEPT ![i] =
                    [c EXCEPT !.pc = "returned",
                              !.attempts = Append(c.attempts, "mock"),
                              !.failed = c.failed \cup {"finnhub"},
                              !.result = getMockQuote(m, c.symbol, 0)]]

\* catch (error): the Alpha Vantage request is issued.
FallBackToAlphaVantage(i) ==
  /\ calls' = [calls EXCEPT ![i] =
                 [calls[i] EXCEPT !.pc = "alphavantage",
                                  !.attempts = Append(calls[i].attempts, "alphavantage"),
                                  !.failed = calls[i].failed \cup {"finnhub"}]]
  /\ UNCHANGED lastMockPrices

\* return await ...: the call returns the provider's Quote.
ReturnQuote(i, q) ==
  /\ calls' = [calls EXCEPT ![i] = [calls[i] EXCEPT !.pc = "returned", !.result = q]]
  /\ UNCHANGED lastMockPrices

\* The Finnhub request of call i settles with resp.
FinnhubSettles(i, resp) ==
  /\ calls[i].pc = "finnhub"
  /\ LET o == getQuoteFromFinnhub(calls[i].symbol, resp)
     IN IF o.threw THEN FallBackToAlphaVantage(i) ELSE ReturnQuote(i, o.quote)

\* The Alpha Vantage request of call i settles with resp; z is the shock
\* the simulator draws if the fallback runs.
AlphaVantageSettles(i, resp, z) ==
  /\ calls[i].pc = "alphavantage"
  /\ LET o == getQuoteFromAlphaVantage(calls[i].symbol, resp)
     IN IF o.threw THEN FallBackToMock(i, z) ELSE ReturnQuote(i, o.quote)

QuoteNext ==
  \/ \E symbol \in RawSymbols : GetQuoteStart(symbol) /\ UNCHANGED <<batches, simVars, fanVars, schedVars>>
  \/ \E i \in 1..Len(calls), resp \in FinnhubResponses :
       FinnhubSettles(i, resp) /\ UNCHANGED <<batches, simVars, fanVars, schedVars>>
  \/ \E i \in 1..Len(calls), resp \in AlphaVantageResponses, z \in Shocks :
       AlphaVantageSettles(i, resp, z) /\ UNCHANGED <<batches, simVars, fanVars, schedVars>>

SpecQuote == Init /\ [][QuoteNext]_vars

\* ------------------------------------------------------- getMultipleQuotes
\* The arrays getMultipleQuotes may be called with.
SymbolArrays == UNION {[1..n -> RawSymbols] : n \in 0..MaxQuoteCalls}

\* Promise.all handing back the values in the order the promises settled.
promiseAll_CompletionOrder(b, settled, cs) ==
  [k \in 1..Len(b.symbols) |-> cs[b.first + settled[k] - 1].result]

\* Promise.all(promises): the value at index k is what promises[k] resolved
\* with, whatever the order in which they settled.
promiseAll(b, settled, cs) ==
  [k \in 1..Len(b.symbols) |-> cs[b.first + k - 1].result]

\* getMultipleQuotes(symbols): symbols.map starts one getQuote per element,
\* in order, each running up to its Finnhub request; Promise.all of no
\* promise is resolved at once.
GetMultipleQuotes(symbols) ==
  /\ Len(batches) < MaxBatches
  /\ Len(calls) + Len(symbols) <= MaxQuoteCalls
  /\ calls' = calls \o [k \in 1..Len(symbols) |->
                          [symbol |-> symbols[k], pc |-> "finnhub",
                           attempts |-> <<"finnhub">>, failed |-> {},
                           result |-> NoQuote]]
  /\ batches' = Append(batches,
                       [symbols |-> symbols, first |-> Len(calls) + 1,
                        settled |-> <<>>,
                        pc |-> IF symbols = <<>> THEN "resolved" ELSE "pending",
                        value |-> <<>>])
  /\ UNCHANGED lastMockPrices

\* What Promise.all does to the call b when one of its getQuote promises
\* resolves between cs and ds: it counts the promise, and resolves with the
\* array once every promise is counted.
PromiseSettles(b, cs, ds) ==
  LET now == {p \in 1..Len(b.symbols) :
                /\ cs[b.first + p - 1].pc # "returned"
                /\ ds[b.first + p - 1].pc = "returned"}
  IN IF now = {} THEN b
     ELSE LET settled == Append(b.settled, CHOOSE p \in now : TRUE)
          IN IF Len(settled) = Len(b.symbols)
             THEN [b EXCEPT !.settled = settled, !.pc = "resolved",
                            !.value = promiseAll(b, settled, ds)]
             ELSE [b EXCEPT !.settled = settled]

MultiNext ==
  \/ \E symbols \in SymbolArrays :
       GetMultipleQuotes(symbols) /\ UNCHANGED <<simVars, fanVars, schedVars>>
  \/ \E i \in 1..Len(calls), resp \in FinnhubResponses :
       /\ FinnhubSettles(i, resp)
       /\ batches' = [k \in DOMAIN batches |-> PromiseSettles(batches[k], calls, calls')]
       /\ UNCHANGED <<simVars, fanVars, schedVars>>
  \/ \E i \in 1..Len(calls), resp \in AlphaVantageResponses, z \in Shocks :
       /\ AlphaVantageSettles(i, resp, z)
       /\ batches' = [k \in DOMAIN batches |-> PromiseSettles(batches[k], calls, calls')]
       /\ UNCHANGED <<simVars, fanVars, schedVars>>

SpecMulti == Init /\ [][MultiNext]_vars

\* ------------------------------------------- generateNextPrice as a call
\* The current prices the generator is called with, in mills: prices of a
\* few mills, and prices near the base prices of the table, with and without
\* a fraction of a cent.
SeedPrices == UNION {{k, 100000 + k, 180000 + k} : k \in 1..MaxSeedPrice}

\* The (drift, volatility) pairs it is called with, in hundredths: none of
\* either, and those of the table.
SeedParameters ==
  {[drift |-> 0, volatility |-> 0]} \cup
  {[drift |-> getSymbolParameters(x).drift,
    volatility |-> getSymbolParameters(x).volatility] : x \in Symbols}

\* A caller is about to run generateNextPrice(currentPrice, drift,
\* volatility, 1 / (252 * 78)).
InitSimulator ==
  /\ lastMockPrices = [p \in Procs |-> <<>>]
  /\ calls = <<>>
  /\ batches = <<>>
  /\ \E currentPrice \in SeedPrices, params \in SeedParameters :
       simulator = [pc |-> "called", currentPrice |-> currentPrice,
                    drift |-> params.drift, volatility |-> params.volatility,
                    nextPrice |-> 0]
  /\ mock = NoMock
  /\ connected = [s \in Sockets |-> TRUE]
  /\ rooms = [s \in Sockets |-> {}]
  /\ subscribedSymbols = [p \in Procs |-> {}]
  /\ busChannels = [p \in Procs |-> {}]
  /\ netBusCalls = [p \in Procs |-> [x \in Symbols |-> 0]]
  /\ activeSymbols = {}
  /\ handler = [s \in Sockets |-> NoHandler]
  /\ emitted = [s \in Sockets |-> <<>>]
  /\ inflight = [p \in Procs |-> <<>>]
  /\ requests = 0
  /\ published = <<>>
  /\ faults = 0
  /\ updater = NoUpdater
  /\ ticks = <<>>
  /\ cache = [x \in Symbols |-> NoCache]
  /\ effects = {}

\* The call draws the shock z and returns.
GenerateNextPrice(z) ==
  /\ simulator.pc = "called"
  /\ simulator' = [simulator EXCEPT
                     !.pc = "returned",
                     !.nextPrice = generateNextPrice(simulator.currentPrice, simulator.drift,
                                                     simulator.volatility, z)]
  /\ UNCHANGED <<lastMockPrices, calls, batches, mock, fanVars, schedVars>>

SimulatorNext == \E z \in Shocks : GenerateNextPrice(z)

SpecSimulator == InitSimulator /\ [][SimulatorNext]_vars

\* ------------------------------------- open, high and low of getMockQuote
\* 1 + randomNormal(0, 0.005) in ten-thousandths, for samples of -2, -1, 0,
\* 1 and 2 standard deviations.
OpenFactors == {9900, 9950, 10000, 10050, 10100}

\* Math.random() * 0.005 in hundred-thousandths, for Math.random() of 0,
\* 0.5 and 0.998.
Widenings == {0, 250, 499}

\* previousClose * (1 + randomNormal(0, 0.005)), in mills.
mockOpen(previousClose, f) == (previousClose * f) \div 10000

Max3(a, b, c) == IF a >= b /\ a >= c THEN a ELSE IF b >= c THEN b ELSE c
Min3(a, b, c) == IF a <= b /\ a <= c THEN a ELSE IF b <= c THEN b ELSE c

\* A high computed from the price alone.
mockHigh_PriceOnly(price, open, lastPrice, w) ==
  price + (price * w) \div 100000

\* Math.max(price, open, lastPrice) * (1 + Math.random() * 0.005)
mockHigh(price, open, lastPrice, w) ==
  Max3(price, open, lastPrice) + (Max3(price, open, lastPrice) * w) \div 100000

\* Math.min(price, open, lastPrice) * (1 - Math.random() * 0.005)
mockLow(price, open, lastPrice, w) ==
  Min3(price, open, lastPrice) - (Min3(price, open, lastPrice) * w) \div 100000

\* A caller is about to run getMockQuote(symbol) on a service whose Map
\* holds lastPrice for the symbol.
InitMock ==
  /\ lastMockPrices = [p \in Procs |-> <<>>]
  /\ calls = <<>>
  /\ batches = <<>>
  /\ simulator = NoSimulation
  /\ \E symbol \in RawSymbols, lastPrice \in SeedPrices :
       mock = [NoMock EXCEPT !.pc = "called", !.symbol = symbol, !.lastPrice = lastPrice]
  /\ connected = [s \in Sockets |-> TRUE]
  /\ rooms = [s \in Sockets |-> {}]
  /\ subscribedSymbols = [p \in Procs |-> {}]
  /\ busChannels = [p \in Procs |-> {}]
  /\ netBusCalls = [p \in Procs |-> [x \in Symbols |-> 0]]
  /\ activeSymbols = {}
  /\ handler = [s \in Sockets |-> NoHandler]
  /\ emitted = [s \in Sockets |-> <<>>]
  /\ inflight = [p \in Procs |-> <<>>]
  /\ requests = 0
  /\ published = <<>>
  /\ faults = 0
  /\ updater = NoUpdater
  /\ ticks = <<>>
  /\ cache = [x \in Symbols |-> NoCache]
  /\ effects = {}

\* getMockQuote draws the shock z of the price, the factor f of the open and
\* the widenings wh and wl of the high and the low, and returns; the Quote
\* carries each value rounded to two decimals.
GetMockQuote(z, f, wh, wl) ==
  LET symbol == mock.symbol
      params == getSymbolParameters(symbol)
      m == mapSet(<<>>, symbol, mock.lastPrice)
      lastPrice == lastPriceOrBase(m, symbol)
      price == mockPrice(m, symbol, z)
      open == mockOpen(params.basePrice, f)
  IN /\ mock.pc = "called"
     /\ mock' = [mock EXCEPT !.pc = "returned",
                             !.seed = lastPrice,
                             !.price = ToFixed2(price),
                             !.open = ToFixed2(open),
                             !.high = ToFixed2(mockHigh(price, open, lastPrice, wh)),
                             !.low = ToFixed2(mockLow(price, open, lastPrice, wl))]
     /\ UNCHANGED <<lastMockPrices, calls, batches, simulator, fanVars, schedVars>>

MockNext ==
  \E z \in Shocks, f \in OpenFactors, wh \in Widenings, wl \in Widenings :
    GetMockQuote(z, f, wh, wl)

SpecMock == InitMock /\ [][MockNext]_vars

\* ------------------------------------------- the seed of consecutive calls
\* The next getMockQuote(symbol) on the same service: the Map now holds the
\* price the call before stored.  Followed while that price is among the
\* smallest seeds, where a step can store 0.
GetMockQuoteAgain ==
  /\ mock.pc = "returned"
  /\ mock.price <= MaxSeedPrice
  /\ mock' = [NoMock EXCEPT !.pc = "called", !.symbol = mock.symbol,
                            !.lastPrice = mock.price]
  /\ UNCHANGED <<lastMockPrices, calls, batches, simulator, fanVars, schedVars>>

\* getMockQuote called again and again, with every sample randomNormal can
\* return.
SeedNext ==
  \/ \E z \in Shocks \cup UnderflowShocks, f \in OpenFactors, wh \in Widenings, wl \in Widenings :
       GetMockQuote(z, f, wh, wl)
  \/ GetMockQuoteAgain

SpecSeed == InitMock /\ [][SeedNext]_vars

\* --------------------------------------------- getQuote as one awaited call
\* getQuote(symbol) on the service whose Map is m, when Finnhub answers fh,
\* Alpha Vantage answers av and the simulator draws z: the Quote returned
\* and the Map afterwards.
getQuote(m, symbol, fh, av, z) ==
  LET f == getQuoteFromFinnhub(symbol, fh)
      a == getQuoteFromAlphaVantage(symbol, av)
  IN IF ~f.threw THEN [quote |-> f.quote, prices |-> m]
     ELSE IF ~a.threw THEN [quote |-> a.quote, prices |-> m]
     ELSE [quote |-> getMockQuote(m, symbol, z),
           prices |-> mapSet(m, symbol, mockPrice(m, symbol, z))]

\* ------------------------------------------------------------------- JSON
JsonNull == [k |-> "null", n |-> 0]
JsonAbsent == [k |-> "absent", n |-> 0]

\* JSON.stringify of one field: NaN and the infinities become null, an
\* undefined field is left out.
JsonField(v) ==
  CASE v.k \in {"NaN", "Infinity"} -> JsonNull
    [] v.k = "undefined" -> JsonAbsent
    [] OTHER -> v

\* JSON.parse of one field: a field that is not there reads as undefined.
JsField(t) == IF t.k = "absent" THEN Undefined ELSE t

\* JSON.stringify(quote)
JsonStringify(q) ==
  [q EXCEPT !.price = JsonField(q.price),
            !.previousClose = JsonField(q.previousClose),
            !.change = JsonField(q.change),
            !.changePercent = JsonField(q.changePercent)]

\* JSON.parse(message)
JsonParse(text) ==
  [text EXCEPT !.price = JsField(text.price),
               !.previousClose = JsField(text.previousClose),
               !.change = JsField(text.change),
               !.changePercent = JsField(text.changePercent)]

\* --------------------------------------------- subscription and fan-out
\* A Redis command is sent when it is issued and the connection handles
\* commands in the order sent, so a command takes effect when it is issued;
\* the handler that awaits it resumes later.  `ok` is whether the command
\* succeeds; it may fail (and then has no effect) while the fault budget
\* lasts.
Outcome(ok) == ok \/ faults < MaxFaults

FaultsAfter(ok) == IF ok THEN faults ELSE faults + 1

\* The handler of socket s finishes after emitting `events`.
Finish(s, outcome, events) ==
  /\ handler' = [handler EXCEPT ![s] =
                   [handler[s] EXCEPT !.pc = "done", !.outcome = outcome, !.empty = FALSE,
                                      !.ok = TRUE]]
  /\ emitted' = [emitted EXCEPT ![s] = @ \o events]

\* catch (error): socket.emit('error', ...)
FailHandler(s) == Finish(s, "error", <<Event("error", handler[s].symbol, NoQuote)>>)

\* A new handler for `symbol` starts on socket s: every other handler for the
\* symbol, finished or not, is no longer the only one to have touched it.
StartHandler(s, h) ==
  /\ handler' = [t \in Sockets |->
                   IF t = s
                   THEN [h EXCEPT !.solo = \A u \in Sockets \ {s} :
                                      ~(InFlight(handler[u]) /\ handler[u].symbol = h.symbol)]
                   ELSE IF handler[t].symbol = h.symbol
                        THEN [handler[t] EXCEPT !.solo = FALSE]
                        ELSE handler[t]]
  /\ emitted' = [emitted EXCEPT ![s] = <<>>]

\* this.redisSubscriber.subscribe(room, ...) is issued by process p.
IssueBusSubscribe(p, symbol, ok) ==
  /\ busChannels' = [busChannels EXCEPT ![p] = IF ok THEN @ \cup {Room(symbol)} ELSE @]
  /\ netBusCalls' = [netBusCalls EXCEPT ![p][symbol] = @ + 1]

\* The subscribe handler from socket.join(room) up to its first await, for
\* the symbol it computed.  The socket joins the room; if the symbol is not
\* in subscribedSymbols the bus subscribe is issued, otherwise getQuote is
\* called.
JoinAndSubscribe(s, symbol, ok) ==
  LET p == SocketProc(s)
      room == Room(symbol)
      first == symbol \notin subscribedSymbols[p]
  IN /\ connected[s]
     /\ ~InFlight(handler[s])
     /\ requests < MaxRequests
     /\ requests' = requests + 1
     /\ rooms' = [rooms EXCEPT ![s] = @ \cup {room}]
     /\ StartHandler(s, [op |-> "subscribe", symbol |-> symbol,
                         pc |-> IF first THEN "s_bus" ELSE "s_quote",
                         ok |-> ok, empty |-> FALSE,
                         pre |-> first /\ InRoom(p, room) \ {s} = {},
                         solo |-> TRUE, outcome |-> "none",
                         busCalls |-> IF first THEN 1 ELSE 0])
     /\ IF first
        THEN /\ Outcome(ok)
             /\ IssueBusSubscribe(p, symbol, ok)
             /\ faults' = FaultsAfter(ok)
        ELSE /\ ok
             /\ UNCHANGED <<busChannels, netBusCalls, faults>>
     /\ UNCHANGED <<lastMockPrices, quoteVars, connected, subscribedSymbols, activeSymbols,
                    inflight, published>>

\* The subscribe handler using the symbol as the client sent it.
SubscribeRequest_RawSymbol(s, raw, ok) == JoinAndSubscribe(s, raw, ok)

\* socket.on('subscribe'): up to the first await, with
\* symbol = data.symbol.toUpperCase().
SubscribeRequest(s, raw, ok) == JoinAndSubscribe(s, ToUpperCase(raw), ok)

\* await this.redisSubscriber.subscribe(...) settles: on success the symbol
\* is added to subscribedSymbols and the registry add (sAdd) is issued.
BusSubscribeSettles(s, ok) ==
  LET p == SocketProc(s)
      symbol == handler[s].symbol
  IN /\ handler[s].pc = "s_bus"
     /\ IF handler[s].ok
        THEN /\ Outcome(ok)
             /\ subscribedSymbols' = [subscribedSymbols EXCEPT ![p] = @ \cup {symbol}]
             /\ activeSymbols' = IF ok THEN activeSymbols \cup {symbol} ELSE activeSymbols
             /\ faults' = FaultsAfter(ok)
             /\ handler' = [handler EXCEPT ![s].pc = "s_reg", ![s].ok = ok]
             /\ UNCHANGED emitted
        ELSE /\ ok
             /\ FailHandler(s)
             /\ UNCHANGED <<subscribedSymbols, activeSymbols, faults>>
     /\ UNCHANGED <<lastMockPrices, quoteVars, connected, rooms, busChannels, netBusCalls,
                    inflight, requests, published>>

\* await this.addActiveSymbol(symbol) settles; on success getQuote is called.
RegistryAddSettles(s) ==
  /\ handler[s].pc = "s_reg"
  /\ IF handler[s].ok
     THEN /\ handler' = [handler EXCEPT ![s].pc = "s_quote"]
          /\ UNCHANGED emitted
     ELSE FailHandler(s)
  /\ UNCHANGED <<lastMockPrices, quoteVars, connected, rooms, subscribedSymbols, busChannels,
                 netBusCalls, activeSymbols, inflight, requests, published, faults>>

\* await marketDataService.getQuote(symbol) settles: the handler emits
\* price_update, then subscribed.
SubscribeQuoteSettles(s, fh, av, z) ==
  LET p == SocketProc(s)
      symbol == handler[s].symbol
      r == getQuote(lastMockPrices[p], symbol, fh, av, z)
  IN /\ handler[s].pc = "s_quote"
     /\ lastMockPrices' = [lastMockPrices EXCEPT ![p] = r.prices]
     /\ Finish(s, "ok", <<Event("price_update", symbol, r.quote),
                          Event("subscribed", symbol, NoQuote)>>)
     /\ UNCHANGED <<quoteVars, connected, rooms, subscribedSymbols, busChannels, netBusCalls,
                    activeSymbols, inflight, requests, published, faults>>

\* socket.on('unsubscribe'): up to the first await.  The socket leaves the
\* room and fetchSockets is called; it computes the room's members now.
UnsubscribeRequest(s, raw) ==
  LET p == SocketProc(s)
      symbol == ToUpperCase(raw)
      room == Room(symbol)
  IN /\ connected[s]
     /\ ~InFlight(handler[s])
     /\ requests < MaxRequests
     /\ requests' = requests + 1
     /\ rooms' = [rooms EXCEPT ![s] = @ \ {room}]
     /\ StartHandler(s, [op |-> "unsubscribe", symbol |-> symbol, pc |-> "u_fetch",
                         ok |-> TRUE,
                         empty |-> InRoom(p, room) \ {s} = {},
                         pre |-> InRoom(p, room) = {s},
                         solo |-> TRUE, outcome |-> "none", busCalls |-> 0])
     /\ UNCHANGED <<lastMockPrices, quoteVars, connected, subscribedSymbols, busChannels,
                    netBusCalls, activeSymbols, inflight, published, faults>>

\* An unsubscribe that names another channel than the one subscribed to:
\* the call is made and the subscription stays.
IssueBusUnsubscribe_OtherChannel(p, symbol, ok) ==
  /\ busChannels' = busChannels
  /\ netBusCalls' = [netBusCalls EXCEPT ![p][symbol] = @ - 1]

\* this.redisSubscriber.unsubscribe(room) is issued by process p.
IssueBusUnsubscribe(p, symbol, ok) ==
  /\ busChannels' = [busChannels EXCEPT ![p] = IF ok THEN @ \ {Room(symbol)} ELSE @]
  /\ netBusCalls' = [netBusCalls EXCEPT ![p][symbol] = @ - 1]

\* await this.io?.in(room).fetchSockets() settles: if no socket was in the
\* room the bus unsubscribe is issued, otherwise unsubscribed is emitted.
FetchSocketsSettles(s, ok) ==
  LET p == SocketProc(s)
      symbol == handler[s].symbol
  IN /\ handler[s].pc = "u_fetch"
     /\ IF handler[s].empty
        THEN /\ Outcome(ok)
             /\ IssueBusUnsubscribe(p, symbol, ok)
             /\ faults' = FaultsAfter(ok)
             /\ handler' = [handler EXCEPT ![s].pc = "u_bus", ![s].ok = ok, ![s].busCalls = 1]
             /\ UNCHANGED emitted
        ELSE /\ ok
             /\ Finish(s, "ok", <<Event("unsubscribed", symbol, NoQuote)>>)
             /\ UNCHANGED <<busChannels, netBusCalls, faults>>
     /\ UNCHANGED <<lastMockPrices, quoteVars, connected, rooms, subscribedSymbols,
                    activeSymbols, inflight, requests, published>>

\* await this.redisSubscriber.unsubscribe(room) settles: on success the
\* symbol is deleted from subscribedSymbols and the registry remove (sRem)
\* is issued.
BusUnsubscribeSettles(s, ok) ==
  LET p == SocketProc(s)
      symbol == handler[s].symbol
  IN /\ handler[s].pc = "u_bus"
     /\ IF handler[s].ok
        THEN /\ Outcome(ok)
             /\ subscribedSymbols' = [subscribedSymbols EXCEPT ![p] = @ \ {symbol}]
             /\ activeSymbols' = IF ok THEN activeSymbols \ {symbol} ELSE activeSymbols
             /\ faults' = FaultsAfter(ok)
             /\ handler' = [handler EXCEPT ![s].pc = "u_reg", ![s].ok = ok]
             /\ UNCHANGED emitted
        ELSE /\ ok
             /\ FailHandler(s)
             /\ UNCHANGED <<subscribedSymbols, activeSymbols, faults>>
     /\ UNCHANGED <<lastMockPrices, quoteVars, connected, rooms, busChannels, netBusCalls,
                    inflight, requests, published>>

\* await this.removeActiveSymbol(symbol) settles; on success unsubscribed is
\* emitted.
RegistryRemoveSettles(s) ==
  /\ handler[s].pc = "u_reg"
  /\ IF handler[s].ok
     THEN Finish(s, "ok", <<Event("unsubscribed", handler[s].symbol, NoQuote)>>)
     ELSE FailHandler(s)
  /\ UNCHANGED <<lastMockPrices, quoteVars, connected, rooms, subscribedSymbols, busChannels,
                 netBusCalls, activeSymbols, inflight, requests, published, faults>>

\* The connection of socket s closes: socket.io takes the socket out of its
\* rooms, and the service's disconnect handler only logs.
Disconnect(s) ==
  /\ connected[s]
  /\ requests < MaxRequests
  /\ requests' = requests + 1
  /\ connected' = [connected EXCEPT ![s] = FALSE]
  /\ rooms' = [rooms EXCEPT ![s] = {}]
  /\ UNCHANGED <<lastMockPrices, quoteVars, subscribedSymbols, busChannels, netBusCalls,
                 activeSymbols, handler, emitted, inflight, published, faults>>

\* The provider answers followed where getQuote is one awaited call of a
\* handler: Finnhub fails or answers with a well-formed body, and Alpha
\* Vantage fails.
HandlerFinnhubResponses ==
  { FinnhubResponse("timeout", "null", Undefined, Undefined),
    FinnhubResponse("ok", "object", Num(181500), Num(180000)) }

HandlerAlphaVantageResponses ==
  { AlphaVantageResponse("timeout", "null", "absent", FALSE, NaN, NaN, NaN, NaN) }

\* The Quote publishPriceUpdate is handed: one getQuote returns for the
\* symbol, here Finnhub's for a body without `pc`, so that the Quote has a
\* number, an undefined field and a NaN.
QuotesOf(symbol) ==
  { getQuoteFromFinnhub(symbol, FinnhubResponse("ok", "object", Num(181500), Undefined)).quote }

\* publishPriceUpdate(symbol, quote): redisClient.publish hands the message
\* to every subscriber connection subscribed to the channel; a failure is
\* caught and logged.
publishPriceUpdate(symbol, quote, ok) ==
  LET room == Room(symbol)
      message == [channel |-> room, message |-> JsonStringify(quote)]
  IN /\ published' = Append(published, [channel |-> room, message |-> message.message, ok |-> ok])
     /\ inflight' = [r \in Procs |->
                       IF ok /\ room \in busChannels[r]
                       THEN Append(inflight[r], message) ELSE inflight[r]]

\* Some caller publishes a Quote for the symbol.
PublishPriceUpdate(symbol, quote, ok) ==
  /\ Len(published) < MaxPublishes
  /\ Outcome(ok)
  /\ faults' = FaultsAfter(ok)
  /\ publishPriceUpdate(symbol, quote, ok)
  /\ UNCHANGED <<lastMockPrices, quoteVars, connected, rooms, subscribedSymbols, busChannels,
                 netBusCalls, activeSymbols, handler, emitted, requests>>

\* redisSubscriber.on('message'): this.io.to(channel).emit('price_update',
\* JSON.parse(message)) for the oldest message process p has received.
RelayMessage(p) ==
  /\ inflight[p] # <<>>
  /\ LET m == Head(inflight[p])
         data == JsonParse(m.message)
     IN emitted' = [s \in Sockets |->
                      IF s \in InRoom(p, m.channel)
                      THEN Append(emitted[s], Event("price_update", data.symbol, data))
                      ELSE emitted[s]]
  /\ inflight' = [inflight EXCEPT ![p] = Tail(@)]
  /\ UNCHANGED <<lastMockPrices, quoteVars, connected, rooms, subscribedSymbols, busChannels,
                 netBusCalls, activeSymbols, handler, requests, published, faults>>

Next ==
  \/ \E s \in Sockets, raw \in RawSymbols, ok \in BOOLEAN :
       SubscribeRequest(s, raw, ok) /\ UNCHANGED schedVars
  \/ \E s \in Sockets, ok \in BOOLEAN : BusSubscribeSettles(s, ok) /\ UNCHANGED schedVars
  \/ \E s \in Sockets : RegistryAddSettles(s) /\ UNCHANGED schedVars
  \/ \E s \in Sockets, fh \in HandlerFinnhubResponses, av \in HandlerAlphaVantageResponses :
       SubscribeQuoteSettles(s, fh, av, 0) /\ UNCHANGED schedVars
  \/ \E s \in Sockets, raw \in RawSymbols : UnsubscribeRequest(s, raw) /\ UNCHANGED schedVars
  \/ \E s \in Sockets, ok \in BOOLEAN : FetchSocketsSettles(s, ok) /\ UNCHANGED schedVars
  \/ \E s \in Sockets, ok \in BOOLEAN : BusUnsubscribeSettles(s, ok) /\ UNCHANGED schedVars
  \/ \E s \in Sockets : RegistryRemoveSettles(s) /\ UNCHANGED schedVars
  \/ \E s \in Sockets : Disconnect(s) /\ UNCHANGED schedVars

Spec == Init /\ [][Next]_vars

\* ------------------------------------------------------ get_subscriptions
\* The symbols of every subscription of the process of socket s.
subscriptionsOf_Process(s) == subscribedSymbols[SocketProc(s)]

\* Array.from(socket.rooms).filter(room => room !== socket.id)
\*   .map(room => room.replace('stock:', ''))
subscriptionsOf(s) == {room[2] : room \in rooms[s]}

\* socket.on('get_subscriptions'): a synchronous handler, which may run
\* while a subscribe or unsubscribe handler of the socket is suspended.
GetSubscriptions(s) ==
  /\ connected[s]
  /\ requests < MaxRequests
  /\ requests' = requests + 1
  /\ emitted' = [emitted EXCEPT ![s] =
                   Append(@, Event("subscriptions", "", [symbols |-> subscriptionsOf(s)]))]
  /\ UNCHANGED <<lastMockPrices, quoteVars, connected, rooms, subscribedSymbols, busChannels,
                 netBusCalls, activeSymbols, handler, inflight, published, faults>>

SubscriptionsNext ==
  \/ Next
  \/ \E s \in Sockets : GetSubscriptions(s) /\ UNCHANGED schedVars

SpecSubscriptions == Init /\ [][SubscriptionsNext]_vars

\* ------------------------------------------------------ malformed requests
\* What a subscribe or unsubscribe event may carry instead of
\* { symbol: string }: no payload, null, an object without symbol, a symbol
\* that is a number, a symbol that is an object.
MalformedPayloads == {"undefined", "null", "no_symbol", "number_symbol", "object_symbol"}

\* data.symbol.toUpperCase() on such a payload: reading a property of
\* undefined or null throws a TypeError, and so does calling toUpperCase on
\* undefined or on a value that has no such method.
readSymbolThrows(payload) ==
  \/ payload \in {"undefined", "null"}
  \/ payload \in {"no_symbol", "number_symbol", "object_symbol"}

\* A handler whose first statement threw and that has no try/catch: the
\* promise of the async listener rejects and nothing is emitted.
MalformedRequest_Uncaught(s, op, payload) ==
  /\ connected[s]
  /\ ~InFlight(handler[s])
  /\ requests < MaxRequests
  /\ readSymbolThrows(payload)
  /\ requests' = requests + 1
  /\ handler' = [handler EXCEPT ![s] =
                   [NoHandler EXCEPT !.op = op, !.pc = "done", !.outcome = "raised"]]
  /\ emitted' = [emitted EXCEPT ![s] = <<>>]
  /\ UNCHANGED <<lastMockPrices, quoteVars, connected, rooms, subscribedSymbols, busChannels,
                 netBusCalls, activeSymbols, inflight, published, faults>>

\* socket.on('subscribe' | 'unsubscribe') with a malformed payload: the
\* first statement of the try block throws before socket.join or
\* socket.leave, and the catch block emits 'error'.  No await is reached.
MalformedRequest(s, op, payload) ==
  /\ connected[s]
  /\ ~InFlight(handler[s])
  /\ requests < MaxRequests
  /\ readSymbolThrows(payload)
  /\ requests' = requests + 1
  /\ handler' = [handler EXCEPT ![s] =
                   [NoHandler EXCEPT !.op = op, !.pc = "done", !.outcome = "error"]]
  /\ emitted' = [emitted EXCEPT ![s] = <<Event("error", "", NoQuote)>>]
  /\ UNCHANGED <<lastMockPrices, quoteVars, connected, rooms, subscribedSymbols, busChannels,
                 netBusCalls, activeSymbols, inflight, published, faults>>

MalformedNext ==
  \/ Next
  \/ \E s \in Sockets, op \in {"subscribe", "unsubscribe"}, payload \in MalformedPayloads :
       MalformedRequest(s, op, payload) /\ UNCHANGED schedVars

SpecMalformed == Init /\ [][MalformedNext]_vars

\* The same handlers when every client writes its symbols in lower case.
LowerCaseSymbols == RawSymbols \ Symbols

LowerCaseNext ==
  \/ \E s \in Sockets, raw \in LowerCaseSymbols, ok \in BOOLEAN :
       SubscribeRequest(s, raw, ok) /\ UNCHANGED schedVars
  \/ \E s \in Sockets, ok \in BOOLEAN : BusSubscribeSettles(s, ok) /\ UNCHANGED schedVars
  \/ \E s \in Sockets : RegistryAddSettles(s) /\ UNCHANGED schedVars
  \/ \E s \in Sockets, fh \in HandlerFinnhubResponses, av \in HandlerAlphaVantageResponses :
       SubscribeQuoteSettles(s, fh, av, 0) /\ UNCHANGED schedVars
  \/ \E s \in Sockets, raw \in LowerCaseSymbols : UnsubscribeRequest(s, raw) /\ UNCHANGED schedVars
  \/ \E s \in Sockets, ok \in BOOLEAN : FetchSocketsSettles(s, ok) /\ UNCHANGED schedVars
  \/ \E s \in Sockets, ok \in BOOLEAN : BusUnsubscribeSettles(s, ok) /\ UNCHANGED schedVars
  \/ \E s \in Sockets : RegistryRemoveSettles(s) /\ UNCHANGED schedVars
  \/ \E s \in Sockets : Disconnect(s) /\ UNCHANGED schedVars

SpecLowerCase == Init /\ [][LowerCaseNext]_vars

RelayNext ==
  \/ Next
  \/ \E symbol \in Symbols, ok \in BOOLEAN :
       \E quote \in QuotesOf(symbol) :
         PublishPriceUpdate(symbol, quote, ok) /\ UNCHANGED schedVars
  \/ \E p \in Procs : RelayMessage(p) /\ UNCHANGED schedVars

SpecRelay == Init /\ [][RelayNext]_vars

\* --------------------------------------------------- POST /market/quotes
\* z.array(z.string()).min(1).max(20)
MIN_SYMBOLS == 1
MAX_SYMBOLS == 20

\* The `symbols` arrays of the request bodies followed: those of
\* SymbolArrays, and arrays longer than the schema allows.
RequestArrays ==
  SymbolArrays \cup
  {[k \in 1..n |-> x] : x \in RawSymbols, n \in (MAX_SYMBOLS + 1)..(MAX_SYMBOLS + 2)}

\* A schema that lets every array through.
multipleSymbolsSchema_AnyLength(symbols) == TRUE

\* multipleSymbolsSchema.parse(req.body) does not throw a ZodError.
multipleSymbolsSchema(symbols) ==
  Len(symbols) >= MIN_SYMBOLS /\ Len(symbols) <= MAX_SYMBOLS

\* MarketController.getMultipleQuotes: the body is parsed; a ZodError is
\* answered with 400 'Invalid request', otherwise the service is called.
PostQuotes(symbols) ==
  IF multipleSymbolsSchema(symbols)
  THEN GetMultipleQuotes(symbols)
  ELSE /\ Len(batches) < MaxBatches
       /\ batches' = Append(batches,
                            [symbols |-> symbols, first |-> Len(calls) + 1,
                             settled |-> <<>>, pc |-> "invalid_request", value |-> <<>>])
       /\ UNCHANGED <<lastMockPrices, calls>>

\* Promise.all of the requests that were dispatched.
SettleDispatched(cs, ds) ==
  [k \in DOMAIN batches |->
     IF batches[k].pc = "pending" THEN PromiseSettles(batches[k], cs, ds) ELSE batches[k]]

HttpNext ==
  \/ \E symbols \in RequestArrays :
       PostQuotes(symbols) /\ UNCHANGED <<simVars, fanVars, schedVars>>
  \/ \E i \in 1..Len(calls), resp \in HandlerFinnhubResponses :
       /\ FinnhubSettles(i, resp)
       /\ batches' = SettleDispatched(calls, calls')
       /\ UNCHANGED <<simVars, fanVars, schedVars>>
  \/ \E i \in 1..Len(calls), resp \in HandlerAlphaVantageResponses, z \in {0} :
       /\ AlphaVantageSettles(i, resp, z)
       /\ batches' = SettleDispatched(calls, calls')
       /\ UNCHANGED <<simVars, fanVars, schedVars>>

SpecHttp == Init /\ [][HttpNext]_vars

\* ------------------------------------------------------ refresh scheduler
\* The scheduler of process QuoteProc.  A tick is one run of updatePrices:
\* the await it is suspended at (pc), whether the registry read succeeded
\* (readOk) and the members the store held (members), what getActiveSymbols
\* returned (activeSymbols) and, for every symbol of symbolsToFetch, its
\* fetchAndPublish call (steps).
NoTick ==
  [pc |-> "reading", readOk |-> TRUE, members |-> <<>>, activeSymbols |-> <<>>,
   steps |-> <<>>]

\* One fetchAndPublish(symbol): the await it is suspended at or how it
\* settled (pc), the Quote it got (quote) and whether the command it awaits
\* succeeds (ok).
FetchStep(pc, quote, ok) == [pc |-> pc, quote |-> quote, ok |-> ok]

Settled(step) == step.pc \in {"fulfilled", "rejected"}

\* What a tick did: it called getQuote (fetch), publishPriceUpdate (publish)
\* or redisClient.setEx (cache) for a symbol.
Effect(t, kind, symbol) == [tick |-> t, kind |-> kind, symbol |-> symbol]

\* The orders in which SMEMBERS may list the members of a set.
Orderings(S) ==
  {q \in [1..Cardinality(S) -> S] : \A i, j \in 1..Cardinality(S) : q[i] = q[j] => i = j}

Range(q) == {q[i] : i \in 1..Len(q)}

\* A start() that schedules a job whether or not one is running.
start_Unguarded(u) ==
  [u EXCEPT !.isRunning = TRUE, !.updateJob = "scheduled", !.timers = @ + 1]

\* start(): nothing when already running; otherwise cron.schedule creates a
\* task that fires from now on, and updateJob refers to it.
start(u) ==
  IF u.isRunning
  THEN u
  ELSE [u EXCEPT !.isRunning = TRUE, !.updateJob = "scheduled", !.timers = @ + 1]

Start ==
  /\ updater' = start(updater)
  /\ UNCHANGED <<lastMockPrices, ticks, cache, effects, quoteVars, fanVars>>

\* stop(): the task updateJob refers to, if there is one, is stopped
\* (stopping a stopped task changes nothing).
stop(u) ==
  IF u.updateJob # "none"
  THEN [u EXCEPT !.isRunning = FALSE, !.updateJob = "stopped",
                 !.timers = IF u.updateJob = "scheduled" THEN @ - 1 ELSE @]
  ELSE u

Stop ==
  /\ updater' = stop(updater)
  /\ UNCHANGED <<lastMockPrices, ticks, cache, effects, quoteVars, fanVars>>

\* shutdown(): stop(), then the wait of one second begins.
Shutdown ==
  /\ updater.shutdown # "waiting"
  /\ updater' = [stop(updater) EXCEPT !.shutdown = "waiting"]
  /\ UNCHANGED <<lastMockPrices, ticks, cache, effects, quoteVars, fanVars>>

\* The wait of shutdown() is over: shutdown() returns.
ShutdownReturns ==
  /\ updater.shutdown = "waiting"
  /\ updater' = [updater EXCEPT !.shutdown = "returned"]
  /\ UNCHANGED <<lastMockPrices, ticks, cache, effects, quoteVars, fanVars>>

\* A tick that begins although no cron task is firing.
CronTick_Unscheduled ==
  /\ Len(ticks) < MaxTicks
  /\ ticks' = Append(ticks, NoTick)
  /\ UNCHANGED <<lastMockPrices, updater, cache, effects, quoteVars, fanVars>>

\* A cron task fires: updatePrices() runs up to its first await, the
\* registry read.
CronTick ==
  /\ updater.timers > 0
  /\ Len(ticks) < MaxTicks
  /\ ticks' = Append(ticks, NoTick)
  /\ UNCHANGED <<lastMockPrices, updater, cache, effects, quoteVars, fanVars>>

\* A getActiveSymbols that answers a failed read with a list of its own.
getActiveSymbols_Default(members, ok) == IF ok THEN members ELSE <<"AAPL">>

\* WebSocketMarketService.getActiveSymbols(): the members, or [] when the
\* read fails.
getActiveSymbols(members, ok) == IF ok THEN members ELSE <<>>

\* A selection without the cap.
symbolsToFetch_All(symbols) == symbols

\* activeSymbols.slice(0, this.MAX_SYMBOLS_PER_UPDATE)
symbolsToFetch(symbols) ==
  SubSeq(symbols, 1, IF Len(symbols) < MAX_SYMBOLS_PER_UPDATE
                     THEN Len(symbols) ELSE MAX_SYMBOLS_PER_UPDATE)

\* await this.getActiveSymbols() settles in tick t: an empty list ends the
\* tick; otherwise fetchAndPublish is called for every symbol of
\* symbolsToFetch, and each calls getQuote.
GetActiveSymbolsSettles(t, members, ok) ==
  LET read == getActiveSymbols(members, ok)
      selected == Range(symbolsToFetch(read))
  IN /\ ticks[t].pc = "reading"
     /\ members \in Orderings(activeSymbols)
     /\ Outcome(ok)
     /\ faults' = FaultsAfter(ok)
     /\ ticks' = [ticks EXCEPT ![t] =
                    [pc |-> IF Len(read) = 0 THEN "done" ELSE "fetching",
                     readOk |-> ok, members |-> members, activeSymbols |-> read,
                     steps |-> IF Len(read) = 0 THEN <<>>
                               ELSE [x \in selected |-> FetchStep("getQuote", NoQuote, TRUE)]]]
     /\ effects' = effects \cup (IF Len(read) = 0 THEN {}
                                 ELSE {Effect(t, "fetch", x) : x \in selected})
     /\ UNCHANGED <<lastMockPrices, updater, cache, quoteVars, connected, rooms,
                    subscribedSymbols, busChannels, netBusCalls, activeSymbols, handler,
                    emitted, inflight, requests, published>>

\* await marketDataService.getQuote(symbol) settles in fetchAndPublish:
\* publishPriceUpdate is called and issues the publish.
FetchQuoteSettles(t, symbol, fh, av, z, ok) ==
  LET r == getQuote(lastMockPrices[QuoteProc], symbol, fh, av, z)
  IN /\ ticks[t].pc = "fetching"
     /\ symbol \in DOMAIN ticks[t].steps
     /\ ticks[t].steps[symbol].pc = "getQuote"
     /\ lastMockPrices' = [lastMockPrices EXCEPT ![QuoteProc] = r.prices]
     /\ Outcome(ok)
     /\ faults' = FaultsAfter(ok)
     /\ publishPriceUpdate(symbol, r.quote, ok)
     /\ ticks' = [ticks EXCEPT ![t].steps[symbol] = FetchStep("publish", r.quote, ok)]
     /\ effects' = effects \cup {Effect(t, "publish", symbol)}
     /\ UNCHANGED <<updater, cache, quoteVars, connected, rooms, subscribedSymbols,
                    busChannels, netBusCalls, activeSymbols, handler, emitted, requests>>

\* A publishPriceUpdate that rethrows: after a failed publish fetchAndPublish
\* is rejected and setEx is never called.
PublishSettles_Rethrow(t, symbol, ok) ==
  LET failed == ~ticks[t].steps[symbol].ok
      steps == [ticks[t].steps EXCEPT ![symbol].pc = "rejected"]
  IN /\ ticks[t].pc = "fetching"
     /\ symbol \in DOMAIN ticks[t].steps
     /\ ticks[t].steps[symbol].pc = "publish"
     /\ Outcome(ok)
     /\ IF failed
        THEN /\ ok
             /\ ticks' = [ticks EXCEPT ![t].steps = steps,
                                       ![t].pc = IF \A x \in DOMAIN steps : Settled(steps[x])
                                                 THEN "done" ELSE "fetching"]
             /\ UNCHANGED <<faults, cache, effects>>
        ELSE /\ faults' = FaultsAfter(ok)
             /\ cache' = IF ok
                         THEN [cache EXCEPT ![symbol] = JsonStringify(ticks[t].steps[symbol].quote)]
                         ELSE cache
             /\ ticks' = [ticks EXCEPT ![t].steps[symbol].pc = "setEx",
                                       ![t].steps[symbol].ok = ok]
             /\ effects' = effects \cup {Effect(t, "cache", symbol)}
     /\ UNCHANGED <<lastMockPrices, updater, quoteVars, connected, rooms, subscribedSymbols,
                    busChannels, netBusCalls, activeSymbols, handler, emitted, inflight,
                    requests, published>>

\* await websocketMarketService.publishPriceUpdate(...) settles (a failed
\* publish was caught there): redisClient.setEx(`quote:${symbol}`, 10, ...)
\* is issued.
PublishSettles(t, symbol, ok) ==
  /\ ticks[t].pc = "fetching"
  /\ symbol \in DOMAIN ticks[t].steps
  /\ ticks[t].steps[symbol].pc = "publish"
  /\ Outcome(ok)
  /\ faults' = FaultsAfter(ok)
  /\ cache' = IF ok THEN [cache EXCEPT ![symbol] = JsonStringify(ticks[t].steps[symbol].quote)]
              ELSE cache
  /\ ticks' = [ticks EXCEPT ![t].steps[symbol].pc = "setEx", ![t].steps[symbol].ok = ok]
  /\ effects' = effects \cup {Effect(t, "cache", symbol)}
  /\ UNCHANGED <<lastMockPrices, updater, quoteVars, connected, rooms, subscribedSymbols,
                 busChannels, netBusCalls, activeSymbols, handler, emitted, inflight,
                 requests, published>>

\* A tick that ends with the first rejection, as with Promise.all.
SetExSettles_FailFast(t, symbol) ==
  LET steps == [ticks[t].steps EXCEPT ![symbol].pc =
                  IF ticks[t].steps[symbol].ok THEN "fulfilled" ELSE "rejected"]
  IN /\ ticks[t].pc = "fetching"
     /\ symbol \in DOMAIN ticks[t].steps
     /\ ticks[t].steps[symbol].pc = "setEx"
     /\ ticks' = [ticks EXCEPT ![t].steps = steps,
                               ![t].pc = IF \/ steps[symbol].pc = "rejected"
                                            \/ \A x \in DOMAIN steps : Settled(steps[x])
                                         THEN "done" ELSE "fetching"]
     /\ UNCHANGED <<lastMockPrices, updater, cache, effects, quoteVars, fanVars>>

\* await redisClient.setEx(...) settles: fetchAndPublish is fulfilled, or it
\* rethrows and is rejected; when every fetchAndPublish of the tick has
\* settled, Promise.allSettled does and updatePrices returns.
SetExSettles(t, symbol) ==
  LET steps == [ticks[t].steps EXCEPT ![symbol].pc =
                  IF ticks[t].steps[symbol].ok THEN "fulfilled" ELSE "rejected"]
  IN /\ ticks[t].pc = "fetching"
     /\ symbol \in DOMAIN ticks[t].steps
     /\ ticks[t].steps[symbol].pc = "setEx"
     /\ ticks' = [ticks EXCEPT ![t].steps = steps,
                               ![t].pc = IF \A x \in DOMAIN steps : Settled(steps[x])
                                         THEN "done" ELSE "fetching"]
     /\ UNCHANGED <<lastMockPrices, updater, cache, effects, quoteVars, fanVars>>

\* addActiveSymbol(symbol), called by a subscribe handler of some process.
addActiveSymbol(symbol) ==
  /\ symbol \notin activeSymbols
  /\ activeSymbols' = activeSymbols \cup {symbol}
  /\ UNCHANGED <<lastMockPrices, schedVars, quoteVars, connected, rooms, subscribedSymbols,
                 busChannels, netBusCalls, handler, emitted, inflight, requests,
                 published, faults>>

\* removeActiveSymbol(symbol), called by an unsubscribe handler of some
\* process.
removeActiveSymbol(symbol) ==
  /\ symbol \in activeSymbols
  /\ activeSymbols' = activeSymbols \ {symbol}
  /\ UNCHANGED <<lastMockPrices, schedVars, quoteVars, connected, rooms, subscribedSymbols,
                 busChannels, netBusCalls, handler, emitted, inflight, requests,
                 published, faults>>

\* The provider answer followed where getQuote is one awaited call of a
\* tick: Finnhub answers with a well-formed body.
TickFinnhubResponses == {FinnhubResponse("ok", "object", Num(181500), Num(180000))}

SchedNext ==
  \/ Start
  \/ Stop
  \/ CronTick
  \/ \E t \in 1..Len(ticks), ok \in BOOLEAN :
       \E members \in Orderings(activeSymbols) : GetActiveSymbolsSettles(t, members, ok)
  \/ \E t \in 1..Len(ticks), symbol \in Symbols, fh \in TickFinnhubResponses,
        av \in HandlerAlphaVantageResponses, ok \in BOOLEAN :
       FetchQuoteSettles(t, symbol, fh, av, 0, ok)
  \/ \E t \in 1..Len(ticks), symbol \in Symbols, ok \in BOOLEAN : PublishSettles(t, symbol, ok)
  \/ \E t \in 1..Len(ticks), symbol \in Symbols : SetExSettles(t, symbol)
  \/ \E symbol \in Symbols : addActiveSymbol(symbol)
  \/ \E symbol \in Symbols : removeActiveSymbol(symbol)

SpecSched == Init /\ [][SchedNext]_vars

\* The symbols in the registry where start, stop and shutdown are followed.
LifecycleSymbols == {"AAPL"}

\* The scheduler with start(), stop() and shutdown().
LifecycleNext ==
  \/ Start
  \/ Stop
  \/ Shutdown
  \/ ShutdownReturns
  \/ CronTick
  \/ \E t \in 1..Len(ticks), ok \in BOOLEAN :
       \E members \in Orderings(activeSymbols) : GetActiveSymbolsSettles(t, members, ok)
  \/ \E t \in 1..Len(ticks), symbol \in LifecycleSymbols, fh \in TickFinnhubResponses,
        av \in HandlerAlphaVantageResponses, ok \in BOOLEAN :
       FetchQuoteSettles(t, symbol, fh, av, 0, ok)
  \/ \E t \in 1..Len(ticks), symbol \in LifecycleSymbols, ok \in BOOLEAN :
       PublishSettles(t, symbol, ok)
  \/ \E t \in 1..Len(ticks), symbol \in LifecycleSymbols : SetExSettles(t, symbol)
  \/ \E symbol \in LifecycleSymbols : addActiveSymbol(symbol)

SpecLifecycle == Init /\ [][LifecycleNext]_vars

\* ------------------------------------------ GET /market/quote/:symbol
\* MarketController.getQuote: symbolSchema uppercases the path parameter and
\* marketDataService.getQuote(symbol) is called; neither reads the store.
HttpGetQuote(raw) == GetQuoteStart(ToUpperCase(raw))

\* The entry `quote:${symbol}` reaches the end of its 10 seconds.
CacheExpires(symbol) ==
  /\ cache[symbol] # NoCache
  /\ cache' = [cache EXCEPT ![symbol] = NoCache]
  /\ UNCHANGED <<lastMockPrices, updater, ticks, effects, quoteVars, fanVars>>

\* The scheduler refreshing the cache while HTTP clients ask for quotes.
CacheNext ==
  \/ Start
  \/ CronTick
  \/ \E t \in 1..Len(ticks), ok \in BOOLEAN :
       \E members \in Orderings(activeSymbols) : GetActiveSymbolsSettles(t, members, ok)
  \/ \E t \in 1..Len(ticks), symbol \in LifecycleSymbols, fh \in TickFinnhubResponses,
        av \in HandlerAlphaVantageResponses, ok \in BOOLEAN :
       FetchQuoteSettles(t, symbol, fh, av, 0, ok)
  \/ \E t \in 1..Len(ticks), symbol \in LifecycleSymbols, ok \in BOOLEAN :
       PublishSettles(t, symbol, ok)
  \/ \E t \in 1..Len(ticks), symbol \in LifecycleSymbols : SetExSettles(t, symbol)
  \/ \E symbol \in LifecycleSymbols : addActiveSymbol(symbol)
  \/ \E symbol \in LifecycleSymbols : CacheExpires(symbol)
  \/ \E raw \in RawSymbols :
       HttpGetQuote(raw) /\ UNCHANGED <<batches, simVars, fanVars, schedVars>>
  \/ \E i \in 1..Len(calls), resp \in HandlerFinnhubResponses :
       FinnhubSettles(i, resp) /\ UNCHANGED <<batches, simVars, fanVars, schedVars>>
  \/ \E i \in 1..Len(calls), resp \in HandlerAlphaVantageResponses :
       AlphaVantageSettles(i, resp, 0) /\ UNCHANGED <<batches, simVars, fanVars, schedVars>>

SpecCache == Init /\ [][CacheNext]_vars

\* ------------------------------------------- a registry larger than the cap
\* Symbols other listeners have subscribed to.
MoreSymbols == {"AMZN", "GOOGL", "MSFT", "TSLA"}

RegistrySymbols == Symbols \cup MoreSymbols

SymbolOrder == <<"AAPL", "AMZN", "GOOGL", "MSFT", "TSLA", "ZZZZ">>

Reverse(q) == [i \in 1..Len(q) |-> q[Len(q) + 1 - i]]

\* The listings of a set followed where the registry is large: its members
\* in SymbolOrder and in the reverse of it, two of Orderings(S).
Listings(S) ==
  { SelectSeq(SymbolOrder, LAMBDA x : x \in S),
    SelectSeq(Reverse(SymbolOrder), LAMBDA x : x \in S) }

\* The symbols that enter and leave the registry while ticks run.
Churn == {"ZZZZ"}

\* The scheduler has been started, listeners of other processes have
\* subscribed to every symbol of RegistrySymbols, and no command fails from
\* here on.
InitBatch ==
  /\ lastMockPrices = [p \in Procs |-> <<>>]
  /\ calls = <<>>
  /\ batches = <<>>
  /\ simulator = NoSimulation
  /\ mock = NoMock
  /\ connected = [s \in Sockets |-> TRUE]
  /\ rooms = [s \in Sockets |-> {}]
  /\ subscribedSymbols = [p \in Procs |-> {}]
  /\ busChannels = [p \in Procs |-> {}]
  /\ netBusCalls = [p \in Procs |-> [x \in Symbols |-> 0]]
  /\ activeSymbols = RegistrySymbols
  /\ handler = [s \in Sockets |-> NoHandler]
  /\ emitted = [s \in Sockets |-> <<>>]
  /\ inflight = [p \in Procs |-> <<>>]
  /\ requests = 0
  /\ published = <<>>
  /\ faults = MaxFaults
  /\ updater = start(NoUpdater)
  /\ ticks = <<>>
  /\ cache = [x \in RegistrySymbols |-> NoCache]
  /\ effects = {}

\* updatePrices has returned for every tick so far: a run that is over
\* leaves nothing behind in the service, and its records are dropped.
Forget ==
  /\ ticks # <<>>
  /\ \A t \in 1..Len(ticks) : ticks[t].pc = "done"
  /\ ticks' = <<>>
  /\ effects' = {}
  /\ published' = <<>>
  /\ UNCHANGED <<lastMockPrices, updater, cache, quoteVars, connected, rooms,
                 subscribedSymbols, busChannels, netBusCalls, activeSymbols, handler,
                 emitted, inflight, requests, faults>>

\* Ticks that do not overlap, over a registry of up to six symbols.
TickNext ==
  \/ CronTick /\ ticks = <<>>
  \/ \E t \in 1..Len(ticks), ok \in BOOLEAN :
       \E members \in Listings(activeSymbols) : GetActiveSymbolsSettles(t, members, ok)
  \/ \E t \in 1..Len(ticks), symbol \in RegistrySymbols, fh \in TickFinnhubResponses,
        av \in HandlerAlphaVantageResponses, ok \in BOOLEAN :
       FetchQuoteSettles(t, symbol, fh, av, 0, ok)
  \/ \E t \in 1..Len(ticks), symbol \in RegistrySymbols, ok \in BOOLEAN :
       PublishSettles(t, symbol, ok)
  \/ \E t \in 1..Len(ticks), symbol \in RegistrySymbols : SetExSettles(t, symbol)

BatchNext ==
  \/ TickNext
  \/ \E symbol \in Churn : addActiveSymbol(symbol)
  \/ \E symbol \in Churn : removeActiveSymbol(symbol)

SpecBatch == InitBatch /\ [][BatchNext]_vars

\* It is the turn of `symbol` in tick t: every symbol before it in
\* symbolsToFetch has settled.
Turn(t, symbol) ==
  LET selected == symbolsToFetch(ticks[t].activeSymbols)
  IN \E i \in 1..Len(selected) :
       /\ selected[i] = symbol
       /\ \A j \in 1..(i - 1) : Settled(ticks[t].steps[selected[j]])

\* Ticks one after the other over a registry that does not change, the
\* fetchAndPublish calls of a tick settling in the order of symbolsToFetch.
RotationNext ==
  \/ CronTick /\ ticks = <<>>
  \/ \E t \in 1..Len(ticks), ok \in BOOLEAN :
       \E members \in Listings(activeSymbols) : GetActiveSymbolsSettles(t, members, ok)
  \/ \E t \in 1..Len(ticks), symbol \in RegistrySymbols, fh \in TickFinnhubResponses,
        av \in HandlerAlphaVantageResponses, ok \in BOOLEAN :
       Turn(t, symbol) /\ FetchQuoteSettles(t, symbol, fh, av, 0, ok)
  \/ \E t \in 1..Len(ticks), symbol \in RegistrySymbols, ok \in BOOLEAN :
       Turn(t, symbol) /\ PublishSettles(t, symbol, ok)
  \/ \E t \in 1..Len(ticks), symbol \in RegistrySymbols :
       Turn(t, symbol) /\ SetExSettles(t, symbol)
  \/ Forget

\* The cron job keeps firing while it is scheduled and every awaited
\* command settles: as one step at a time is possible here, it is enough
\* that the scheduler never halts.
RotationFairness == WF_vars(RotationNext)

SpecRotation == InitBatch /\ [][RotationNext]_vars /\ RotationFairness

\* ------------------------------------------------------ claims: the chain
DataSources == {"finnhub", "alphavantage", "mock"}

\* C1: getQuote never fails.  Whatever the two providers answer, a call is
\* waiting for a provider or has returned a Quote; it never raises to its
\* caller, and what it returns is a Quote for the symbol asked.
C1_GetQuoteNeverFails ==
  \A i \in 1..Len(calls) :
    /\ calls[i].pc \in {"finnhub", "alphavantage", "returned"}
    /\ calls[i].pc = "returned" =>
         /\ calls[i].result # NoQuote
         /\ calls[i].result.symbol = ToUpperCase(calls[i].symbol)

\* C1 witness: a call has returned after both providers failed.
C1_Witness ==
  \E i \in 1..Len(calls) :
    /\ calls[i].pc = "returned"
    /\ calls[i].failed = {"finnhub", "alphavantage"}

\* C2: every Quote getQuote returns has one of the three data sources, and
\* isRealTime is true exactly when the source is not the simulation.
C2_DataSourceAndRealTime ==
  \A i \in 1..Len(calls) :
    calls[i].pc = "returned" =>
      /\ calls[i].result.dataSource \in DataSources
      /\ calls[i].result.isRealTime = (calls[i].result.dataSource # "mock")

\* C2 witness: Quotes of all three sources have been returned.
C2_Witness ==
  \A d \in DataSources :
    \E i \in 1..Len(calls) : calls[i].pc = "returned" /\ calls[i].result.dataSource = d

ChainOrder == <<"finnhub", "alphavantage", "mock">>

\* C3: within one getQuote call the sources are tried in the order Finnhub,
\* Alpha Vantage, simulation, each at most once; a source is tried only
\* after every source before it has failed, and the Quote returned carries
\* the first source that did not fail.
C3_FixedProviderOrder ==
  \A i \in 1..Len(calls) :
    LET c == calls[i]
        n == Len(c.attempts)
    IN /\ n \in 1..3
       /\ \A k \in 1..n : c.attempts[k] = ChainOrder[k]
       /\ c.failed = {ChainOrder[k] : k \in 1..(n - 1)}
       /\ c.pc = "finnhub" => n = 1
       /\ c.pc = "alphavantage" => n = 2
       /\ c.pc = "returned" => c.result.dataSource = c.attempts[n]

\* C3 witness: one call returned Alpha Vantage's Quote after Finnhub failed,
\* another the simulated Quote after both failed.
C3_Witness ==
  /\ \E i \in 1..Len(calls) :
       /\ calls[i].pc = "returned"
       /\ calls[i].attempts = <<"finnhub", "alphavantage">>
       /\ calls[i].result.dataSource = "alphavantage"
  /\ \E i \in 1..Len(calls) :
       /\ calls[i].pc = "returned"
       /\ calls[i].attempts = ChainOrder
       /\ calls[i].result.dataSource = "mock"

\* ---------------------------------------------------- claims: the fan-out
\* No subscribe or unsubscribe handler is suspended at an await.
Quiescent == \A s \in Sockets : ~InFlight(handler[s])

\* Socket s was sent `subscribed` for symbol x by its latest request.
Acknowledged(s, x) ==
  /\ handler[s].op = "subscribe"
  /\ handler[s].symbol = x
  /\ handler[s].pc = "done"
  /\ handler[s].outcome = "ok"

C5_AtMostOneBusSubscribe ==
  faults = 0 => \A p \in Procs, x \in Symbols : netBusCalls[p][x] <= 1

\* C6: a process takes no teardown step for X (issuing the bus unsubscribe
\* for X's channel; deleting X from subscribedSymbols and removing it from
\* the registry) while one of its sockets is in X's room and was sent
\* `subscribed` for X (checked on steps before any command has failed).
C6_NoTeardownWhileSubscribed ==
  [][\A s \in Sockets :
       ( /\ faults = 0
         /\ \/ handler[s].pc = "u_fetch" /\ handler'[s].pc = "u_bus"
            \/ handler[s].pc = "u_bus" /\ handler'[s].pc = "u_reg" )
       => ~ \E t \in SocketsOf(SocketProc(s)) :
              /\ Room(handler[s].symbol) \in rooms[t]
              /\ Acknowledged(t, handler[s].symbol)]_vars

\* Each process's own bookkeeping agrees with its rooms: it holds X and X's
\* channel exactly when one of its sockets is in X's room.
LocallyConsistent ==
  \A p \in Procs, x \in Symbols :
    /\ (x \in subscribedSymbols[p]) = (InRoom(p, Room(x)) # {})
    /\ (Room(x) \in busChannels[p]) = (InRoom(p, Room(x)) # {})

\* C7: with the registry shared by two processes, whenever no handler is
\* mid-flight, X is in the registry if a listener on any process is in X's
\* room (checked where no command has failed and every process's own
\* bookkeeping is consistent, so that only the shared registry is at stake).
C7_RegistryCoversEveryInstance ==
  (Quiescent /\ faults = 0 /\ LocallyConsistent) =>
    \A x \in Symbols :
      (\E s \in Sockets : Room(x) \in rooms[s]) => x \in activeSymbols

\* C8: whenever no handler is mid-flight and a process has no socket in X's
\* room, however the last one left, the process holds no bus subscription
\* for X and does not have X in subscribedSymbols (checked where no command
\* has failed).
C8_IdleWithoutListeners ==
  (Quiescent /\ faults = 0) =>
    \A p \in Procs, x \in Symbols :
      InRoom(p, Room(x)) = {} =>
        /\ Room(x) \notin busChannels[p]
        /\ x \notin subscribedSymbols[p]

\* C9: (a) a message published on X's channel reaches every process with a
\* listener registered for X (a socket in X's room that was sent
\* `subscribed`; checked where no handler is mid-flight and no command has
\* failed), and (b) a process relays a message it received, payload
\* unchanged, to the sockets in the channel's room and to no other socket.
C9_PublishedMessagesAreRelayed ==
  [][ /\ ( /\ Len(published') = Len(published) + 1
           /\ published'[Len(published')].ok
           /\ Quiescent
           /\ faults = 0 )
         => \A s \in Sockets :
              LET p == SocketProc(s)
                  m == published'[Len(published')]
              IN ( \E x \in Symbols : /\ m.channel = Room(x)
                                      /\ Acknowledged(s, x)
                                      /\ Room(x) \in rooms[s] )
                 => /\ Len(inflight'[p]) = Len(inflight[p]) + 1
                    /\ inflight'[p][Len(inflight'[p])].message = m.message
      /\ \A p \in Procs :
           (inflight[p] # <<>> /\ inflight'[p] = Tail(inflight[p]))
           => \A s \in Sockets :
                IF s \in InRoom(p, Head(inflight[p]).channel)
                THEN /\ Len(emitted'[s]) = Len(emitted[s]) + 1
                     /\ emitted'[s][Len(emitted'[s])].event = "price_update"
                     /\ JsonStringify(emitted'[s][Len(emitted'[s])].data)
                          = Head(inflight[p]).message
                ELSE emitted'[s] = emitted[s]
    ]_vars

\* -------------------------------------------------- claims: the scheduler
\* C10: a tick whose registry read came back without members, or failed (and
\* is then reported as empty), calls getQuote for no symbol, publishes
\* nothing and writes no cache entry, and is over at once.
C10_EmptyTickDoesNothing ==
  \A t \in 1..Len(ticks) :
    (ticks[t].pc # "reading" /\ (~ticks[t].readOk \/ ticks[t].members = <<>>)) =>
      /\ ticks[t].pc = "done"
      /\ ticks[t].steps = <<>>
      /\ \A e \in effects : e.tick # t

\* C10 witness: one tick read an empty registry, another one's read failed
\* while the registry held a symbol, and both are over.
C10_Witness ==
  /\ \E t \in 1..Len(ticks) :
       ticks[t].pc = "done" /\ ticks[t].readOk /\ ticks[t].members = <<>>
  /\ \E t \in 1..Len(ticks) :
       ticks[t].pc = "done" /\ ~ticks[t].readOk /\ ticks[t].members # <<>>

\* The symbols tick t has done `kind` for.
Handled(t, kind) == {e.symbol : e \in {f \in effects : f.tick = t /\ f.kind = kind}}

\* C11: in every tick at most MAX_SYMBOLS_PER_UPDATE symbols are fetched, at
\* most that many published and at most that many cached, whatever the size
\* of the registry, and every symbol the tick handles is among the members
\* the registry had when the tick read it.
C11_BatchCap ==
  \A t \in 1..Len(ticks) :
    \A kind \in {"fetch", "publish", "cache"} :
      /\ Cardinality(Handled(t, kind)) <= MAX_SYMBOLS_PER_UPDATE
      /\ Handled(t, kind) \subseteq Range(ticks[t].members)

\* C11 witness: a tick that read more members than the cap is over, it has
\* written the cache for exactly MAX_SYMBOLS_PER_UPDATE symbols, and one of
\* them has left the registry since.
C11_Witness ==
  \E t \in 1..Len(ticks) :
    /\ ticks[t].pc = "done"
    /\ Len(ticks[t].members) > MAX_SYMBOLS_PER_UPDATE
    /\ Cardinality(Handled(t, "cache")) = MAX_SYMBOLS_PER_UPDATE
    /\ ~(Handled(t, "cache") \subseteq activeSymbols)

\* C12: while the registry stays the same set of more than
\* MAX_SYMBOLS_PER_UPDATE symbols and ticks keep coming, every symbol of the
\* registry is eventually fetched, published and cached by some tick.
C12_EveryActiveSymbolEventuallyRefreshed ==
  [](activeSymbols = RegistrySymbols) =>
    \A x \in RegistrySymbols : <>(\E t \in 1..Len(ticks) : x \in Handled(t, "cache"))

\* C13: a tick is reading, fetching or over and never ends by raising; it is
\* over exactly when every fetchAndPublish it started has settled; and in a
\* tick that is over every selected symbol has had its own fetch, publish
\* and cache write, and is rejected only if its own cache write failed,
\* whatever happened to the other symbols.
C13_FailuresAreIsolated ==
  \A t \in 1..Len(ticks) :
    LET steps == ticks[t].steps
    IN /\ ticks[t].pc \in {"reading", "fetching", "done"}
       /\ ticks[t].pc = "fetching" => \E x \in DOMAIN steps : ~Settled(steps[x])
       /\ ticks[t].pc = "done" =>
            \A x \in DOMAIN steps :
              /\ Settled(steps[x])
              /\ \A kind \in {"fetch", "publish", "cache"} : x \in Handled(t, kind)
              /\ (steps[x].pc = "rejected") = ~steps[x].ok

\* C13 witness: a tick is over in which one symbol's cache write failed and
\* another symbol was fetched, published and cached.
C13_Witness ==
  \E t \in 1..Len(ticks) :
    /\ ticks[t].pc = "done"
    /\ \E x, y \in DOMAIN ticks[t].steps :
         /\ ticks[t].steps[x].pc = "rejected"
         /\ ticks[t].steps[y].pc = "fulfilled"
         /\ cache[y] = JsonStringify(ticks[t].steps[y].quote)

\* C14: at most one cron task is firing, isRunning is true exactly when one
\* is, and start() while running changes nothing (it creates no task).
C14_StartIsIdempotent ==
  /\ updater.timers \in {0, 1}
  /\ updater.isRunning = (updater.timers = 1)
  /\ updater.isRunning => start(updater) = updater
  /\ start(start(updater)) = start(updater)

\* C14 witness: the scheduler is running again after a shutdown() that has
\* returned.
C14_Witness ==
  /\ updater.isRunning
  /\ updater.timers = 1
  /\ updater.shutdown = "returned"

\* The next step of tick t: one of its awaits settles.
TickStep(t) ==
  \/ \E ok \in BOOLEAN :
       \E members \in Orderings(activeSymbols) : GetActiveSymbolsSettles(t, members, ok)
  \/ \E symbol \in Symbols, fh \in TickFinnhubResponses,
        av \in HandlerAlphaVantageResponses, ok \in BOOLEAN :
       FetchQuoteSettles(t, symbol, fh, av, 0, ok)
  \/ \E symbol \in Symbols, ok \in BOOLEAN : PublishSettles(t, symbol, ok)
  \/ \E symbol \in Symbols : SetExSettles(t, symbol)

\* C15: a tick begins only while the scheduler is running (so none begins
\* between a stop() or shutdown() and the next start()); start(), stop()
\* and shutdown() leave the ticks in flight as they are, and a tick in
\* flight can take its next step whether or not the scheduler is running;
\* shutdown() stops the job when it is called and returns only from its
\* wait.
C15_StopLetsTicksFinish ==
  [][ /\ Len(ticks') > Len(ticks) => updater.isRunning /\ updater.timers > 0
      /\ updater' # updater => ticks' = ticks /\ effects' = effects
      /\ \A t \in 1..Len(ticks) : ticks[t].pc # "done" => ENABLED TickStep(t)
      /\ (updater'.shutdown = "waiting" /\ updater.shutdown # "waiting")
           => ~updater'.isRunning /\ updater'.timers = 0
      /\ (updater'.shutdown = "returned" /\ updater.shutdown # "returned")
           => updater.shutdown = "waiting"
    ]_vars

\* C15 witness: shutdown() has returned, the scheduler is not running, one
\* tick is over with its cache write done and another is still in flight.
C15_Witness ==
  /\ updater.shutdown = "returned"
  /\ ~updater.isRunning
  /\ \E t \in 1..Len(ticks) : ticks[t].pc = "done" /\ Handled(t, "cache") # {}
  /\ \E t \in 1..Len(ticks) : ticks[t].pc = "fetching"

\* ------------------------------------------------------------------- C16
\* C16: getMultipleQuotes never rejects and resolves exactly when every one
\* of its getQuote calls has returned; the array it resolves with has one
\* Quote per input symbol, the Quote at each index being the one returned by
\* the getQuote call of the symbol at that index, in whatever order the calls
\* completed; a call whose Finnhub request succeeded contributes the Finnhub
\* Quote whatever happened to the providers of the other symbols.
C16_OneQuotePerSymbolInInputOrder ==
  \A j \in 1..Len(batches) :
    LET b == batches[j]
        call(k) == calls[b.first + k - 1]
    IN /\ b.pc \in {"pending", "resolved"}
       /\ b.pc = "resolved" <=> \A k \in 1..Len(b.symbols) : call(k).pc = "returned"
       /\ b.pc = "resolved" =>
            /\ Len(b.value) = Len(b.symbols)
            /\ \A k \in 1..Len(b.symbols) :
                 /\ b.value[k] # NoQuote
                 /\ b.value[k] = call(k).result
                 /\ b.value[k].symbol = ToUpperCase(b.symbols[k])
                 /\ call(k).failed = {} => b.value[k].dataSource = "finnhub"

\* A call for two different symbols has resolved; the second symbol's Quote
\* arrived first, and both providers of the first symbol failed.
C16_Witness ==
  \E j \in 1..Len(batches) :
    LET b == batches[j]
    IN /\ b.pc = "resolved"
       /\ Len(b.symbols) = 2
       /\ ToUpperCase(b.symbols[1]) # ToUpperCase(b.symbols[2])
       /\ b.settled = <<2, 1>>
       /\ calls[b.first].failed = {"finnhub", "alphavantage"}
       /\ b.value[1].dataSource = "mock"
       /\ b.value[2].dataSource = "finnhub"

\* ------------------------------------------------------------------- C17
\* The getQuote calls on QuoteProc that have returned a simulated Quote for
\* the symbol that `symbol` normalizes to.
SimulatedFor(symbol) ==
  {j \in 1..Len(calls) :
     /\ calls[j].pc = "returned"
     /\ calls[j].result.dataSource = "mock"
     /\ calls[j].result.symbol = ToUpperCase(symbol)}

\* C17: when a getQuote call falls back to the simulation, the seed it feeds
\* to the generator is the base price only if no simulated Quote was returned
\* for that symbol before on this process; otherwise the seed is the price
\* of a simulated Quote returned before for that symbol (the latest one).
C17_SimulatedPathIsContinuous ==
  [][\A i \in 1..Len(calls) :
       (/\ calls[i].pc = "alphavantage"
        /\ calls'[i].pc = "returned"
        /\ calls'[i].result.dataSource = "mock") =>
         LET seed == lastPriceOrBase(lastMockPrices[QuoteProc], calls[i].symbol)
         IN IF SimulatedFor(calls[i].symbol) = {}
            THEN seed = getSymbolParameters(calls[i].symbol).basePrice
            ELSE \E j \in SimulatedFor(calls[i].symbol) :
                   Num(seed) = calls[j].result.price]_vars

\* ------------------------------------------------------------------- C18
\* C18: every Quote returned by getQuote whose price and previousClose are
\* numbers has change equal to price minus previousClose (the tolerance of
\* 1e-6 is below one mill) and, when previousClose is not zero, changePercent
\* within 1e-4 of change / previousClose * 100.  The tolerance is 10
\* hundred-thousandths of a percent and Percent rounds down by less than
\* one, so a changePercent within the tolerance of the exact quotient is
\* above Percent by at most 10 and below it by at most 9.
C18_ChangeAndChangePercentAreConsistent ==
  \A i \in 1..Len(calls) :
    LET q == calls[i].result
    IN (/\ calls[i].pc = "returned"
        /\ q.price.k = "num"
        /\ q.previousClose.k = "num") =>
         /\ q.change.k = "num"
         /\ q.change.n = q.price.n - q.previousClose.n
         /\ q.previousClose.n # 0 =>
              /\ q.changePercent.k = "num"
              /\ q.changePercent.n - Percent(q.change.n, q.previousClose.n)
                   \in -9..10

\* ------------------------------------------------------------------- C19
\* C19: generateNextPrice called with zero drift and zero volatility returns
\* the current price exactly.
C19_NoDriftNoVolatilityIsIdentity ==
  (/\ simulator.pc = "returned"
   /\ simulator.drift = 0
   /\ simulator.volatility = 0) => simulator.nextPrice = simulator.currentPrice

\* ------------------------------------------------------------------- C20
\* C20: when every subscribe request writes its symbol in lower case, every
\* room a socket is in, every bus channel a process is subscribed to, every
\* entry of subscribedSymbols and every member of the registry is named by
\* an uppercased symbol; and a subscribe handler that finished without error
\* has emitted to its socket a price_update carrying the Quote getQuote
\* returned for the uppercased symbol, although no scheduler runs and no tick
\* has happened.
C20_SubscribeNormalizesAndSendsFirstPrice ==
  /\ activeSymbols \subseteq Symbols
  /\ \A p \in Procs :
       /\ subscribedSymbols[p] \subseteq Symbols
       /\ busChannels[p] \subseteq {Room(x) : x \in Symbols}
  /\ \A s \in Sockets :
       /\ rooms[s] \subseteq {Room(x) : x \in Symbols}
       /\ (handler[s].op = "subscribe" /\ InFlight(handler[s]) /\ connected[s]) =>
            /\ handler[s].symbol \in Symbols
            /\ Room(handler[s].symbol) \in rooms[s]
       /\ (handler[s].op = "subscribe" /\ handler[s].pc = "done"
             /\ handler[s].outcome = "ok") =>
            /\ handler[s].symbol \in Symbols
            /\ ~updater.isRunning /\ ticks = <<>>
            /\ \E i \in 1..Len(emitted[s]) :
                 /\ emitted[s][i].event = "price_update"
                 /\ emitted[s][i].symbol = handler[s].symbol
                 /\ emitted[s][i].data # NoQuote
                 /\ emitted[s][i].data.symbol = handler[s].symbol

\* A socket asked for "aapl": it is in the room of AAPL, its process is
\* subscribed to the channel of AAPL, the registry holds AAPL, and the
\* handler has emitted the first price_update for AAPL, with no tick.
C20_Witness ==
  \E s \in Sockets :
    /\ handler[s].op = "subscribe"
    /\ handler[s].pc = "done"
    /\ handler[s].outcome = "ok"
    /\ handler[s].symbol = "AAPL"
    /\ "aapl" \in LowerCaseSymbols
    /\ Room("AAPL") \in rooms[s]
    /\ Room("AAPL") \in busChannels[SocketProc(s)]
    /\ "AAPL" \in activeSymbols
    /\ emitted[s][1].event = "price_update"
    /\ emitted[s][1].data.symbol = "AAPL"
    /\ ticks = <<>>

\* ------------------------------------------------------------------- C21
\* C21: a subscribe handler that finished without error has emitted to its
\* socket the 'subscribed' acknowledgement first and the 'price_update' of
\* that symbol after it.
C21_SubscribedBeforePriceUpdate ==
  \A s \in Sockets :
    (handler[s].op = "subscribe" /\ handler[s].pc = "done" /\ handler[s].outcome = "ok") =>
      \E i, j \in 1..Len(emitted[s]) :
        /\ i < j
        /\ emitted[s][i].event = "subscribed"
        /\ emitted[s][i].symbol = handler[s].symbol
        /\ emitted[s][j].event = "price_update"
        /\ emitted[s][j].symbol = handler[s].symbol

\* ------------------------------------------------------------------- C22
\* The handler of socket s has just handled a request whose payload was
\* malformed: it computed no symbol.
Malformed(h) == h.op \in {"subscribe", "unsubscribe"} /\ h.pc = "done" /\ h.symbol = ""

\* C22: a step that handles a malformed subscribe or unsubscribe request
\* emits exactly one 'error' event to that socket and does not raise; it
\* changes no room, no bus subscription, no registry entry, no other
\* socket's events, and leaves the connection open and free to take its
\* next request.
C22_MalformedRequestOnlyEmitsError ==
  [][\A s \in Sockets :
       (/\ Malformed(handler'[s])
        /\ handler'[s] # handler[s] \/ emitted'[s] # emitted[s]) =>
         /\ requests' = requests + 1
         /\ handler'[s].outcome = "error"
         /\ Len(emitted'[s]) = 1
         /\ emitted'[s][1].event = "error"
         /\ \A t \in Sockets \ {s} : emitted'[t] = emitted[t] /\ handler'[t] = handler[t]
         /\ connected' = connected
         /\ connected'[s]
         /\ ~InFlight(handler'[s])
         /\ UNCHANGED <<rooms, subscribedSymbols, busChannels, netBusCalls, activeSymbols,
                        inflight, published, lastMockPrices>>]_vars

\* A socket that is in the room of AAPL sent a malformed unsubscribe: it got
\* the 'error' event, is still connected and still in the room.
C22_Witness ==
  \E s \in Sockets :
    /\ Malformed(handler[s])
    /\ handler[s].op = "unsubscribe"
    /\ handler[s].outcome = "error"
    /\ emitted[s] = <<Event("error", "", NoQuote)>>
    /\ connected[s]
    /\ Room("AAPL") \in rooms[s]
    /\ "AAPL" \in activeSymbols

\* ------------------------------------------------------------------- C23
\* C23: a batch request whose symbol list is empty or longer than 20 is
\* answered with the invalid-request error in the step that receives it,
\* and that step starts no getQuote call and touches no simulation state;
\* the request stays rejected, and every getQuote call belongs to a request
\* that passed the validation.
C23_InvalidBatchIsRejectedBeforeDispatch ==
  [][/\ \A j \in 1..Len(batches') :
          (j > Len(batches) /\ (Len(batches'[j].symbols) = 0 \/ Len(batches'[j].symbols) > 20)) =>
            /\ batches'[j].pc = "invalid_request"
            /\ UNCHANGED <<calls, lastMockPrices>>
     /\ \A j \in 1..Len(batches) :
          batches[j].pc = "invalid_request" => batches'[j] = batches[j]
     /\ \A i \in 1..Len(calls') :
          \E j \in 1..Len(batches') :
            /\ batches'[j].pc # "invalid_request"
            /\ Len(batches'[j].symbols) \in 1..20
            /\ i \in batches'[j].first..(batches'[j].first + Len(batches'[j].symbols) - 1)]_vars

\* An empty request and a request with more than 20 symbols were both
\* rejected, and no getQuote call was started.
C23_Witness ==
  /\ \E j \in 1..Len(batches) :
       Len(batches[j].symbols) = 0 /\ batches[j].pc = "invalid_request"
  /\ \E j \in 1..Len(batches) :
       Len(batches[j].symbols) > 20 /\ batches[j].pc = "invalid_request"
  /\ calls = <<>>
  /\ lastMockPrices = [p \in Procs |-> <<>>]

\* ------------------------------------------------------------------- C24
\* The symbols socket s has asked to subscribe to and has not since asked to
\* unsubscribe from, as its rooms record them.
Requested(s) == {x \in Symbols : Room(x) \in rooms[s]}

\* The handler of socket s starts handling a request `op` in this step.
Receives(s, op) ==
  /\ ~InFlight(handler[s])
  /\ InFlight(handler'[s])
  /\ handler'[s].op = op

\* C24: the set Requested starts empty, gains exactly the symbol of each
\* subscribe request (once, however often it is repeated), loses exactly the
\* symbol of each unsubscribe request and is otherwise unchanged while the
\* connection is open; and every 'subscriptions' event sent to a socket
\* lists exactly that set.
C24_SubscriptionsAreTheRequestedSet ==
  [][\A s \in Sockets :
       /\ Receives(s, "subscribe") =>
            Requested(s)' = Requested(s) \cup {handler'[s].symbol}
       /\ Receives(s, "unsubscribe") =>
            Requested(s)' = Requested(s) \ {handler'[s].symbol}
       /\ (connected'[s] /\ ~Receives(s, "subscribe") /\ ~Receives(s, "unsubscribe")) =>
            Requested(s)' = Requested(s)
       /\ (/\ Len(emitted'[s]) = Len(emitted[s]) + 1
           /\ emitted'[s][Len(emitted'[s])].event = "subscriptions") =>
            /\ emitted'[s][Len(emitted'[s])].data.symbols = Requested(s)
            /\ \A room \in rooms[s] : \E x \in Symbols : room = Room(x)]_vars

\* A socket asked for AAPL and for ZZZZ and then for its subscriptions: its
\* latest event is a 'subscriptions' event listing both symbols.
C24_Witness ==
  \E s \in Sockets :
    /\ emitted[s] # <<>>
    /\ emitted[s][Len(emitted[s])].event = "subscriptions"
    /\ emitted[s][Len(emitted[s])].data.symbols = {"AAPL", "ZZZZ"}
    /\ Requested(s) = {"AAPL", "ZZZZ"}

\* ------------------------------------------------------------------- C25
\* C25: every Quote returned by getQuote has price, previousClose, change
\* and changePercent that are finite numbers.
C25_ReturnedQuotesAreFinite ==
  \A i \in 1..Len(calls) :
    calls[i].pc = "returned" =>
      /\ calls[i].result.price.k = "num"
      /\ calls[i].result.previousClose.k = "num"
      /\ calls[i].result.change.k = "num"
      /\ calls[i].result.changePercent.k = "num"

\* ------------------------------------------------------------------- C26
\* C26: the Quote getMockQuote returns has
\* low <= min(open, price) <= max(open, price) <= high.
C26_LowAndHighBracketOpenAndPrice ==
  mock.pc = "returned" =>
    /\ mock.low <= mock.open /\ mock.low <= mock.price
    /\ mock.open <= mock.high /\ mock.price <= mock.high

\* A simulated Quote whose open is above its price and above the seed, with
\* the high and the low widened: the high is what brackets the open.
C26_Witness ==
  /\ mock.pc = "returned"
  /\ mock.open > mock.price
  /\ mock.open > mock.lastPrice
  /\ mock.high > mock.open
  /\ mock.low < mock.price
  /\ mock.low < mock.lastPrice

\* ------------------------------------------------------------------- C27
\* C27: an HTTP quote request for a symbol whose cache entry is present
\* starts no getQuote call, hence no provider request: a step that starts a
\* call is for a symbol with no cache entry.
C27_CachedSymbolMakesNoProviderCall ==
  [][Len(calls') > Len(calls) =>
       cache[calls'[Len(calls')].symbol] = NoCache]_vars

\* ------------------------------------------------------------------- C28
\* The publishPriceUpdate calls made for the symbol with the Quote q.
PublishedAs(symbol, q) ==
  {i \in 1..Len(published) :
     published[i].channel = Room(symbol) /\ published[i].message = JsonStringify(q)}

\* C28: in every tick and for every selected symbol, the cache write is
\* issued only after the publish and the publish only after the fetch; once
\* the publish has settled, whether it succeeded or failed, the cache write
\* has been issued, with the Quote that was published; a fetchAndPublish is
\* rejected only after its publish was attempted; and every cache entry is a
\* message that was published on the symbol's channel.
C28_FetchThenPublishThenCache ==
  /\ \A t \in 1..Len(ticks) :
       \A x \in DOMAIN ticks[t].steps :
         LET step == ticks[t].steps[x]
         IN /\ x \in Handled(t, "cache") => x \in Handled(t, "publish")
            /\ x \in Handled(t, "publish") => x \in Handled(t, "fetch")
            /\ step.pc = "getQuote" => x \notin Handled(t, "publish")
            /\ step.pc = "publish" =>
                 /\ x \notin Handled(t, "cache")
                 /\ PublishedAs(x, step.quote) # {}
            /\ step.pc \in {"setEx", "fulfilled", "rejected"} =>
                 /\ x \in Handled(t, "cache")
                 /\ PublishedAs(x, step.quote) # {}
            /\ step.pc = "rejected" => x \in Handled(t, "publish")
  /\ \A x \in Symbols :
       cache[x] # NoCache =>
         \E i \in 1..Len(published) :
           published[i].channel = Room(x) /\ published[i].message = cache[x]

\* A symbol's publish failed in a tick and its Quote was written to the
\* cache all the same: the fetchAndPublish is fulfilled.
C28_Witness ==
  \E t \in 1..Len(ticks) :
    \E x \in DOMAIN ticks[t].steps :
      /\ ticks[t].steps[x].pc = "fulfilled"
      /\ cache[x] = JsonStringify(ticks[t].steps[x].quote)
      /\ \E i \in PublishedAs(x, ticks[t].steps[x].quote) : ~published[i].ok
      /\ \A i \in 1..Len(published) : published[i].channel = Room(x) => ~published[i].ok

\* ------------------------------------------------------------------- C29
\* C29: at most one run of updatePrices() is in flight at any time: a cron
\* task does not begin a tick while the previous tick's provider calls,
\* publishes or cache writes are still pending.
C29_AtMostOneTickInFlight ==
  Cardinality({t \in 1..Len(ticks) : ticks[t].pc # "done"}) <= 1

\* ------------------------------------------------------------------- C30
\* The prices one generator step can produce for `symbol` from the seed.
NextPrices(symbol, seed) ==
  LET params == getSymbolParameters(symbol)
  IN {Num(generateNextPrice(seed, params.drift, params.volatility, z)) : z \in Shocks}

\* The simulated Quotes in the order q form one path of the generator: the
\* first is one step from the base price and each later one is one step
\* from the price of the one before it.
IsGeneratorPath(symbol, q) ==
  \A k \in 1..Len(q) :
    calls[q[k]].result.price \in
      NextPrices(symbol, IF k = 1 THEN getSymbolParameters(symbol).basePrice
                         ELSE calls[q[k - 1]].result.price.n)

\* C30: however the getQuote calls of one process interleave, the simulated
\* Quotes returned for one symbol are N steps of one generator path: they
\* can be put in an order in which the first is seeded by the base price and
\* every other one by the price of the one before it; no call's step starts
\* again from a seed that another call has already advanced.
C30_NoSimulationStepIsLost ==
  \A symbol \in RawSymbols :
    \E q \in Orderings(SimulatedFor(symbol)) : IsGeneratorPath(symbol, q)

\* ------------------------------------------------------------------- C31
\* C31: the simulation state is kept under the upper-case symbol, so a
\* getQuote call that falls back to the simulation after a simulated Quote
\* was returned for another spelling of its symbol is seeded by the price of
\* a simulated Quote returned before for that symbol, not by the base price
\* of a state of its own.
C31_CaseVariantsShareOneState ==
  [][\A i \in 1..Len(calls) :
       (/\ calls[i].pc = "alphavantage"
        /\ calls'[i].pc = "returned"
        /\ calls'[i].result.dataSource = "mock"
        /\ \E j \in SimulatedFor(calls[i].symbol) : calls[j].symbol # calls[i].symbol) =>
         /\ \A key \in DOMAIN lastMockPrices'[QuoteProc] : key = ToUpperCase(key)
         /\ \E j \in SimulatedFor(calls[i].symbol) :
              Num(lastPriceOrBase(lastMockPrices[QuoteProc], calls[i].symbol))
                = calls[j].result.price]_vars

\* ------------------------------------------------------------------- C32
\* C32: the seed getMockQuote passes to the generator is strictly positive:
\* when the Map holds 0 for the symbol the seed is the symbol's base price,
\* when it holds a positive price the seed is that price, and the call
\* returns a Quote.
C32_SeedIsStrictlyPositive ==
  mock.pc = "returned" =>
    /\ mock.seed > 0
    /\ mock.lastPrice = 0 => mock.seed = getSymbolParameters(mock.symbol).basePrice
    /\ mock.lastPrice > 0 => mock.seed = mock.lastPrice

\* A step has stored 0 and the call after it was seeded by the base price
\* and returned a positive price.
C32_Witness ==
  /\ mock.pc = "returned"
  /\ mock.lastPrice = 0
  /\ mock.seed = getSymbolParameters(mock.symbol).basePrice
  /\ mock.price > 0

\* ------------------------------------------------------------------- C33
\* C33: an unsubscribe request for a symbol that neither its socket nor
\* another socket of the process is subscribed to changes no shared state:
\* no step of its handler issues a bus unsubscribe, and none removes the
\* symbol from the registry 'active_symbols'.  (`empty` and `pre` record
\* what the handler found in the room when the request arrived.)
C33_UnsubscribeOfNoListenerChangesNothing ==
  [][\A s \in Sockets :
       (/\ handler[s].op = "unsubscribe"
        /\ handler[s].pc \in {"u_fetch", "u_bus", "u_reg"}
        /\ handler'[s].pc # handler[s].pc
        /\ handler[s].empty
        /\ ~handler[s].pre) =>
         /\ netBusCalls' = netBusCalls
         /\ busChannels' = busChannels
         /\ activeSymbols' = activeSymbols]_vars

\* ------------------------------------------------------------------- C34
\* C34: when a subscribe request fails, the socket is not in the symbol's
\* room afterwards, and the process has the symbol in subscribedSymbols only
\* if it is subscribed to the symbol's channel and the symbol is in the
\* registry, so that a later subscribe either finds all three or creates
\* all three.
C34_FailedSubscribeLeavesNoTrace ==
  [][\A s \in Sockets :
       (/\ handler[s].op = "subscribe"
        /\ InFlight(handler[s])
        /\ handler'[s].pc = "done"
        /\ handler'[s].outcome = "error") =>
         LET p == SocketProc(s)
             symbol == handler[s].symbol
         IN /\ Room(symbol) \notin rooms'[s]
            /\ symbol \in subscribedSymbols'[p] =>
                 /\ Room(symbol) \in busChannels'[p]
                 /\ symbol \in activeSymbols']_vars

====
